---- MODULE Spec2Model ----
(***************************************************************************)
(* Capture-session registry and signal aggregation of the interview        *)
(* backend: src/backend/app/api/session.py (CaptureSession and the         *)
(* process-wide registry _active_sessions) and src/backend/app/main.py     *)
(* (the start / stop / heartbeat handlers and session_cleanup_task).       *)
(*                                                                         *)
(* The HTTP handlers are `async def` bodies without an await, and the      *)
(* reaper awaits only in its sleep, so on the single event loop each       *)
(* handler and each reaper tick is one atomic step.                        *)
(*                                                                         *)
(* CaptureSession.setup() and .start() touch the file system, the devices  *)
(* and the collaborators FaceLogger / SessionManager; their outcome        *)
(* (raises, camera fails, completes) is an input of StartSession.  In the  *)
(* sources as they stand setup() raises at session.py:117 (FaceLogger()    *)
(* without log_path) and self.session_manager is never assigned; that is   *)
(* the outcome "setup_raises" / the stop fault "end_session" below.        *)
(*                                                                         *)
(* The capture units are checked on their own as well: CameraCapture and   *)
(* its capture thread (camera_capture.py), FaceLogger and its JsonWriter   *)
(* (face_logger.py, json_writer.py), AudioCapture (audio_capture.py),      *)
(* EyeTracker (eye_tracking.py) and VoiceActivityDetector                  *)
(* (voice_activity.py).  Threads interleave between the statements of the  *)
(* capture loop; real-valued ratios are kept as scaled integers.           *)
(***************************************************************************)
EXTENDS Integers, Sequences, FiniteSets, TLC

VARIABLES
    _active_sessions,   \* registry dict, insertion ordered: <<[cid, sid], ...>>
    objs,               \* every CaptureSession instance ever constructed
    hist,               \* per instance: what its callbacks were fed (observer)
    now,                \* time.time(), whole seconds
    resp,               \* outcome of the last handler / task step
    dicts,              \* heap of signal dicts (_current_signals and copies)
    integs,             \* heap of nested "integrity" dicts
    snaps,              \* references handed to readers by get_current_signals
    bufs,               \* heap of frame arrays (camera.current_frame and copies)
    frames,             \* references handed to readers by get_current_frame
    saved,              \* the last session_data stored by save_session
    cleanup_task,       \* the asyncio task running session_cleanup_task
    call,               \* the last CaptureSession.start() / .stop() call (observer)
    cam,                \* a CameraCapture object and its capture thread
    flog,               \* a FaceLogger: its JsonWriter, the file, what it was fed
    mic,                \* an AudioCapture object and its input stream
    tracker,            \* an EyeTracker and the result of its last process_frame
    detector,           \* a VoiceActivityDetector and what it was fed
    feed,               \* what the last round of a live feed emitted
    life,               \* per instance: the setup() / start() / stop() calls made (observer)
    head_tracker,       \* a HeadMovementTracker and the result of its last process_frame
    threads             \* one session's capture thread and one reader, statement by statement

heap == <<dicts, integs, snaps, bufs, frames>>

\* the capture units checked on their own
units == <<cam, flog, mic, tracker, detector, head_tracker>>

\* the registry, its sessions and their readers
session_vars == <<_active_sessions, objs, hist, now, resp, dicts, integs, snaps, bufs, frames,
                  saved, cleanup_task, call, feed, life, threads>>

vars == <<_active_sessions, objs, hist, now, resp, dicts, integs, snaps, bufs, frames,
          saved, cleanup_task, call, cam, flog, mic, tracker, detector, feed, life,
          head_tracker, threads>>

----------------------------------------------------------------------------
\* Bounds

MaxSessions == 3        \* CaptureSession instances constructed in a run
MaxTime == 61           \* clock horizon, seconds
MaxSigSessions == 2     \* instances in the signal specification
MaxFrames == 11         \* frame callbacks per instance
MaxSnapFrames == 2      \* frame callbacks per instance in the snapshot specification
MaxSnaps == 1           \* dicts and frames handed out to readers
MaxStopSessions == 3    \* instances in the start / stop specification
MaxCamFrames == 4       \* frames the camera delivers
MaxBlocks == 3          \* blocks the audio driver delivers
MaxEyeFrames == 4       \* frames fed to the eye tracker
MaxChunks == 4          \* chunks fed to the voice activity detector
MaxFeedSessions == 2    \* instances in the live-feed specification
MaxFeedFrames == 1      \* frame callbacks per instance in the live-feed specification
MaxEntrySessions == 1   \* instances in the log-entry specification
MaxEntryFrames == 2     \* frame callbacks per instance in the log-entry specification
MaxReqSessions == 2     \* instances in the request specification
MaxPairSessions == 2    \* instances in the two-candidate specification
MaxPairFrames == 2      \* frame callbacks per instance in the two-candidate specification
MaxLifeSessions == 2    \* instances in the lifecycle specification
MaxStops == 2           \* stop() calls per instance in the lifecycle specification
MaxHeadFrames == 7      \* frames fed to the head-movement tracker
MaxLogFrames == 2       \* frames fed to the face logger on its own
MaxMuteSessions == 3    \* instances in the specification of sessions without audio
MaxLockFrames == 2      \* frame callbacks in the statement-level specification

\* Program constants

StaleAfter == 60        \* main.py:278  current_time - last_heartbeat > 60

None == "None"          \* Python None where a string is expected
NoSid == 0              \* Python None where a session object is expected
NoTime == -1            \* Python None where a time is expected

CandidateIds == {"", "a", "b"}      \* request.candidate_id: str (may be empty)
Steps == {60, 61}                   \* clock advances between steps

----------------------------------------------------------------------------
\* Registry: get_session / create_session / clear_session

Range(f) == {f[i] : i \in DOMAIN f}

Keys(reg) == {reg[i].cid : i \in DOMAIN reg}

Lookup(reg, cid) ==
    LET I == {i \in DOMAIN reg : reg[i].cid = cid}
    IN  IF I = {} THEN NoSid ELSE reg[CHOOSE i \in I : TRUE].sid

Falsy(cid) == cid = "" \/ cid = None

\* def get_session(candidate_id=None)
get_session(reg, cid) ==
    IF ~Falsy(cid) /\ cid \in Keys(reg) THEN Lookup(reg, cid)
    ELSE IF Falsy(cid) /\ reg # <<>> THEN reg[1].sid
    ELSE NoSid

\* _active_sessions[candidate_id] = session  (a dict keeps the key's position)
create_session(reg, cid, sid) ==
    IF cid \in Keys(reg)
    THEN [i \in DOMAIN reg |-> IF reg[i].cid = cid THEN [cid |-> cid, sid |-> sid] ELSE reg[i]]
    ELSE Append(reg, [cid |-> cid, sid |-> sid])

\* del _active_sessions[candidate_id] if present
clear_session(reg, cid) == SelectSeq(reg, LAMBDA e : e.cid # cid)

----------------------------------------------------------------------------
\* CaptureSession

\* the literal dict of CaptureSession.__init__
InitialSignals(integ) ==
    [face_detected |-> FALSE, eye_direction |-> "unknown", head_movement |-> "unknown",
     blink |-> FALSE, voice_activity |-> "silent", integrity |-> integ,
     elapsed_sec |-> 0, session_active |-> FALSE]

InitialIntegrity ==
    [face_continuous |-> TRUE, multiple_faces |-> FALSE, audio_interruptions |-> FALSE]

\* variant of __init__ in which the signals dict is one object of the class
NewCaptureSession_SharedSignals(t, sig) ==
    [is_running |-> FALSE, candidate_id |-> None, start_time |-> NoTime,
     last_heartbeat |-> t,
     camera |-> "None", face_logger |-> "None", audio |-> "None", vad |-> "None",
     _current_signals |-> 1,
     _face_present_count |-> 0, _total_frame_count |-> 0,
     _multiple_faces_detected |-> FALSE, _multiple_faces_latch |-> FALSE,
     _audio_interruptions |-> FALSE,
     current_frame |-> 0]

\* CaptureSession.__init__ at time t, its dict allocated at address sig
NewCaptureSession(t, sig) ==
    [is_running |-> FALSE, candidate_id |-> None, start_time |-> NoTime,
     last_heartbeat |-> t,
     camera |-> "None", face_logger |-> "None", audio |-> "None", vad |-> "None",
     _current_signals |-> sig,
     _face_present_count |-> 0, _total_frame_count |-> 0,
     _multiple_faces_detected |-> FALSE, _multiple_faces_latch |-> FALSE,
     _audio_interruptions |-> FALSE,
     current_frame |-> 0]       \* camera.current_frame: address in bufs, 0 = None

NewHist == [frames |-> 0, faces |-> 0, multi |-> FALSE, last |-> FALSE, anomaly |-> FALSE]

SetupOutcomes == {"setup_raises", "start_raises", "camera_fails", "audio_fails", "ok"}

\* variant of start() that gives up when the audio input does not open
setup_and_start_AudioFatal(o, cid, t, outcome) ==
    LET s2 == [o EXCEPT !.candidate_id = cid, !.start_time = t, !.camera = "created",
                        !.face_logger = "started", !.audio = "created", !.vad = "created"]
    IN  IF outcome = "audio_fails"
        THEN [obj |-> [s2 EXCEPT !.camera = "running"], started |-> FALSE, raised |-> FALSE]
        ELSE [obj |-> [s2 EXCEPT !.camera = "running", !.audio = "running",
                                  !.is_running = TRUE],
              started |-> TRUE, raised |-> FALSE]

\* variant of start() that opens the audio stream before the camera
setup_and_start_AudioFirst(o, cid, t, outcome) ==
    LET s2 == [o EXCEPT !.candidate_id = cid, !.start_time = t, !.camera = "created",
                        !.face_logger = "started", !.audio = "running", !.vad = "created"]
    IN  IF outcome = "camera_fails"
        THEN [obj |-> s2, started |-> FALSE, raised |-> FALSE]
        ELSE [obj |-> [s2 EXCEPT !.camera = "running", !.is_running = TRUE],
              started |-> TRUE, raised |-> FALSE]

\* setup() then start() of a fresh instance, up to the point the outcome names;
\* raised tells an exception from a `return False`
setup_and_start(o, cid, t, outcome) ==
    LET s0 == [o EXCEPT !.candidate_id = cid, !.start_time = t, !.camera = "created"]
        s1 == [s0 EXCEPT !.face_logger = "created", !.audio = "created", !.vad = "created"]
        s2 == [s1 EXCEPT !.face_logger = "started", !.start_time = t]
    IN  CASE outcome = "setup_raises" -> [obj |-> s0, started |-> FALSE, raised |-> TRUE]
          [] outcome = "start_raises" -> [obj |-> s1, started |-> FALSE, raised |-> TRUE]
          [] outcome = "camera_fails" -> [obj |-> s2, started |-> FALSE, raised |-> FALSE]
          [] outcome = "audio_fails" ->
                [obj |-> [s2 EXCEPT !.camera = "running", !.is_running = TRUE],
                 started |-> TRUE, raised |-> FALSE]
          [] OTHER ->
                [obj |-> [s2 EXCEPT !.camera = "running", !.audio = "running",
                                     !.is_running = TRUE],
                 started |-> TRUE, raised |-> FALSE]

\* no session_data reached save_session, or save_session raised
NoData == [stored |-> FALSE, multiple_faces_detected |-> FALSE,
           audio_interruptions_detected |-> FALSE]

StopFaults == {"none", "camera", "audio", "face_logger", "vad", "end_session", "save_session"}

\* variant of stop() that clears is_running only when every release succeeded
stop_RunningUntilReleased(o, fault) ==
    LET o2 == [o EXCEPT !.camera = IF @ = "None" THEN @ ELSE "stopped"]
        o3 == [o2 EXCEPT !.audio = IF @ = "None" THEN @ ELSE "stopped"]
        o4 == [o3 EXCEPT !.face_logger = IF @ = "None" THEN @ ELSE "stopped"]
        o5 == [o4 EXCEPT !.vad = IF @ = "None" THEN @ ELSE "saved"]
        o6 == [o5 EXCEPT !.is_running = FALSE]
        data == [stored |-> TRUE,
                 multiple_faces_detected |-> o5._multiple_faces_latch,
                 audio_interruptions_detected |-> o5._audio_interruptions]
        R(obj, raised, rec) == [obj |-> obj, raised |-> raised, data |-> rec]
    IN  IF fault = "camera" /\ o.camera # "None" THEN R(o, TRUE, NoData)
        ELSE IF fault = "audio" /\ o2.audio \notin {"None", "created"} THEN R(o2, TRUE, NoData)
        ELSE IF fault = "face_logger" /\ o3.face_logger # "None" THEN R(o3, TRUE, NoData)
        ELSE IF fault = "vad" /\ o4.vad # "None" THEN R(o4, TRUE, NoData)
        ELSE IF fault = "end_session" THEN R(o5, TRUE, NoData)
        ELSE IF fault = "save_session" THEN R(o6, FALSE, NoData)
        ELSE R(o6, FALSE, data)

\* CaptureSession.stop(); fault names the call that raises, if that call is
\* made (audio.stop() has nothing to close or save when the input never opened)
stop(o, fault) ==
    LET o1 == [o EXCEPT !.is_running = FALSE]
        o2 == [o1 EXCEPT !.camera = IF @ = "None" THEN @ ELSE "stopped"]
        o3 == [o2 EXCEPT !.audio = IF @ = "None" THEN @ ELSE "stopped"]
        o4 == [o3 EXCEPT !.face_logger = IF @ = "None" THEN @ ELSE "stopped"]
        o5 == [o4 EXCEPT !.vad = IF @ = "None" THEN @ ELSE "saved"]
        data == [stored |-> TRUE,
                 multiple_faces_detected |-> o5._multiple_faces_latch,
                 audio_interruptions_detected |-> o5._audio_interruptions]
        R(obj, raised, rec) == [obj |-> obj, raised |-> raised, data |-> rec]
    IN  IF fault = "camera" /\ o1.camera # "None" THEN R(o1, TRUE, NoData)
        ELSE IF fault = "audio" /\ o2.audio \notin {"None", "created"} THEN R(o2, TRUE, NoData)
        ELSE IF fault = "face_logger" /\ o3.face_logger # "None" THEN R(o3, TRUE, NoData)
        ELSE IF fault = "vad" /\ o4.vad # "None" THEN R(o4, TRUE, NoData)
        ELSE IF fault = "end_session" THEN R(o5, TRUE, NoData)
        ELSE IF fault = "save_session" THEN R(o5, FALSE, NoData)
        ELSE R(o5, FALSE, data)

\* save_session(session_data): the row of instance sid replaces what db holds
Save(db, sid, data) ==
    IF data.stored
    THEN [sid |-> sid, multiple_faces_detected |-> data.multiple_faces_detected,
          audio_interruptions_detected |-> data.audio_interruptions_detected]
    ELSE db

----------------------------------------------------------------------------
\* Producer callbacks and reads of CaptureSession

\* entries returned by FaceLogger.process_frame (a no-face entry carries
\* "unknown" directions and no blink); "multiple_faces" is read with
\* entry.get("multiple_faces", False)
NoFace == [face_present |-> FALSE, eye_direction |-> "unknown", head_movement |-> "unknown",
           blink |-> FALSE, multiple_faces |-> FALSE]
OneFace == [face_present |-> TRUE, eye_direction |-> "center", head_movement |-> "low",
            blink |-> FALSE, multiple_faces |-> FALSE]
TwoFaces == [face_present |-> TRUE, eye_direction |-> "left", head_movement |-> "high",
             blink |-> TRUE, multiple_faces |-> TRUE]
Entries == {NoFace, OneFace, TwoFaces}

\* what EyeTracker.process_frame returns: (False, False, "center") without a
\* face, else (True, blink, direction)
EyeResults ==
    {[face |-> FALSE, blink |-> FALSE, direction |-> "center"]}
        \cup [face : {TRUE}, blink : BOOLEAN, direction : {"left", "center", "right"}]

\* what HeadMovementTracker.process_frame returns: (False, "low") without a
\* face, else (True, intensity)
HeadResults ==
    {[face |-> FALSE, movement |-> "low"]}
        \cup [face : {TRUE}, movement : {"low", "medium", "high"}]

\* variant of the log entry that needs both trackers to see the face
log_entry_Intersection(eye, head) ==
    LET face_present == eye.face /\ head.face
    IN  [face_present |-> face_present,
         eye_direction |-> IF face_present THEN eye.direction ELSE "unknown",
         blink |-> IF face_present THEN eye.blink ELSE FALSE,
         head_movement |-> IF face_present THEN head.movement ELSE "unknown",
         multiple_faces |-> FALSE]

\* variant of the log entry that passes the trackers' values through
log_entry_Unmasked(eye, head) ==
    [face_present |-> eye.face \/ head.face,
     eye_direction |-> eye.direction,
     blink |-> eye.blink,
     head_movement |-> head.movement,
     multiple_faces |-> FALSE]

\* the entry FaceLogger.process_frame builds from the two trackers' results;
\* it has no "multiple_faces" key, which _on_frame reads with a default of False
log_entry(eye, head) ==
    LET face_present == eye.face \/ head.face
    IN  [face_present |-> face_present,
         eye_direction |-> IF face_present THEN eye.direction ELSE "unknown",
         blink |-> IF face_present THEN eye.blink ELSE FALSE,
         head_movement |-> IF face_present THEN head.movement ELSE "unknown",
         multiple_faces |-> FALSE]

\* variant of _on_frame whose latch follows the latest frame
on_frame_LatchReset(o, e) ==
    [o EXCEPT !._total_frame_count = @ + 1,
              !._face_present_count = IF e.face_present THEN @ + 1 ELSE @,
              !._multiple_faces_detected = e.multiple_faces,
              !._multiple_faces_latch = e.multiple_faces]

\* _on_frame: the counters and flags of the instance
on_frame(o, e) ==
    [o EXCEPT !._total_frame_count = @ + 1,
              !._face_present_count = IF e.face_present THEN @ + 1 ELSE @,
              !._multiple_faces_detected = e.multiple_faces,
              !._multiple_faces_latch = IF e.multiple_faces THEN TRUE ELSE @]

\* variant of _on_frame that also resets the voice field
on_frame_signals_ResetsVoice(d, e) ==
    [d EXCEPT !.face_detected = e.face_present, !.eye_direction = e.eye_direction,
              !.head_movement = e.head_movement, !.blink = e.blink,
              !.voice_activity = "silent"]

\* _on_frame: the writes to self._current_signals under _signal_lock
on_frame_signals(d, e) ==
    [d EXCEPT !.face_detected = e.face_present, !.eye_direction = e.eye_direction,
              !.head_movement = e.head_movement, !.blink = e.blink]

\* variant of _on_audio_chunk that tracks the status of the latest chunk
on_audio_chunk_Unlatched(o, status) == [o EXCEPT !._audio_interruptions = status]

\* _on_audio_chunk: if status: self._audio_interruptions = True
on_audio_chunk(o, status) ==
    [o EXCEPT !._audio_interruptions = IF status THEN TRUE ELSE @]

\* variant with an inclusive 90% threshold
face_continuous_Inclusive(o) ==
    IF o._total_frame_count > 0
    THEN 10 * o._face_present_count >= 9 * o._total_frame_count
    ELSE TRUE

\* presence_ratio = face_present / total;  face_continuous = presence_ratio > 0.9
\* (the float quotient is above the float 0.9 exactly when 10 * present > 9 * total
\* for every count below 10^15)
face_continuous(o) ==
    IF o._total_frame_count > 0
    THEN 10 * o._face_present_count > 9 * o._total_frame_count
    ELSE TRUE

\* the integrity dict built by get_current_signals
integrity_of(o) ==
    [face_continuous |-> face_continuous(o),
     multiple_faces |-> o._multiple_faces_detected,
     audio_interruptions |-> o._audio_interruptions]

\* elapsed = time.time() - self.start_time if self.start_time else 0; round(elapsed)
elapsed_of(o, t) == IF o.start_time # NoTime THEN t - o.start_time ELSE 0

\* variant that hands out the live dict with its integrity refreshed in place
get_current_signals_Live(o, ds, is, t) ==
    [dicts |-> [ds EXCEPT ![o._current_signals].elapsed_sec = elapsed_of(o, t)],
     integs |-> [is EXCEPT ![ds[o._current_signals].integrity] = integrity_of(o)],
     ref |-> o._current_signals]

\* get_current_signals on the heaps ds, is: signals = self._current_signals.copy()
\* is a shallow copy (its "integrity" still points at the session's nested
\* dict); signals["integrity"] = {...} then binds a new dict in the copy
get_current_signals(o, ds, is, t) ==
    LET copy == Len(ds) + 1
        integ == Len(is) + 1
        ds1 == Append(ds, ds[o._current_signals])
        is1 == Append(is, integrity_of(o))
    IN  [dicts |-> [ds1 EXCEPT ![copy].integrity = integ,
                               ![copy].elapsed_sec = elapsed_of(o, t)],
         integs |-> is1,
         ref |-> copy]

\* the value a reader sees through the reference a
Deref(ds, is, a) == [ds[a] EXCEPT !.integrity = is[ds[a].integrity]]

\* the value get_current_signals returns for instance o right now
SignalsNow(o) ==
    LET r == get_current_signals(o, dicts, integs, now) IN Deref(r.dicts, r.integs, r.ref)

\* self.current_frame = frame.copy(): the slot is bound to a new array; the
\* array it held is freed, and its cell reused, unless a reader holds it
store_frame(o, bs, held, px) ==
    IF o.current_frame # 0 /\ o.current_frame \notin held
    THEN [bufs |-> [bs EXCEPT ![o.current_frame] = px], ref |-> o.current_frame]
    ELSE [bufs |-> Append(bs, px), ref |-> Len(bs) + 1]

\* CameraCapture.get_current_frame: current_frame.copy() or None
get_current_frame(o, bs) ==
    IF o.camera = "None" \/ o.current_frame = 0
    THEN [bufs |-> bs, ref |-> 0]
    ELSE [bufs |-> Append(bs, bs[o.current_frame]), ref |-> Len(bs) + 1]

\* An instance neither registered nor held by a live producer thread (the
\* camera thread and the audio stream hold its bound callbacks) is garbage:
\* CPython frees it, nothing can observe it again.
Collected == NewCaptureSession(NoTime, 0)

Held(reg, o, sid) ==
    \/ \E i \in DOMAIN reg : reg[i].sid = sid
    \/ o.camera = "running"
    \/ o.audio = "running"

Sweep(reg, os) == [sid \in DOMAIN os |-> IF Held(reg, os[sid], sid) THEN os[sid] ELSE Collected]

\* the instances freed between os and os1, and their heap cells: the signals
\* dict and the latest-frame array go with the instance unless a reader holds them
Freed(os, os1) == {sid \in DOMAIN os : os[sid] # Collected /\ os1[sid] = Collected}

FreeDicts(os, os1, ds, held) ==
    [a \in DOMAIN ds |->
        IF a \notin held /\ \E sid \in Freed(os, os1) : os[sid]._current_signals = a
        THEN InitialSignals(ds[a].integrity) ELSE ds[a]]

FreeBufs(os, os1, bs, held) ==
    [a \in DOMAIN bs |->
        IF a \notin held /\ \E sid \in Freed(os, os1) : os[sid].current_frame = a
        THEN 0 ELSE bs[a]]

\* the observer forgets what a freed instance was fed
Forget(os, hs) == [sid \in DOMAIN hs |-> IF os[sid] = Collected THEN NewHist ELSE hs[sid]]

----------------------------------------------------------------------------
\* Handlers of main.py

Resp(op, cid, code) == [op |-> op, cid |-> cid, code |-> code, errors |-> 0]

\* POST /api/session/start
StartSessionFor(cid, outcome, maxSessions) ==
    LET existing == get_session(_active_sessions, cid)
    IN  IF existing # NoSid /\ objs[existing].is_running
        THEN /\ resp' = Resp("start", cid, 400)
             /\ UNCHANGED <<_active_sessions, objs, hist, now, heap, saved, cleanup_task, units, threads, feed>>
        ELSE /\ Len(objs) < maxSessions
             /\ LET sid == Len(objs) + 1
                    sig == Len(dicts) + 1
                    r == setup_and_start(NewCaptureSession(now, sig), cid, now, outcome)
                    reg1 == create_session(_active_sessions, cid, sid)
                    reg2 == IF r.started THEN reg1 ELSE clear_session(reg1, cid)
                    os1 == Append(objs, r.obj)
                IN  /\ objs' = Sweep(reg2, os1)
                    /\ hist' = Forget(objs', Append(hist, NewHist))
                    /\ dicts' = FreeDicts(os1, objs', Append(dicts, InitialSignals(Len(integs) + 1)),
                                          Range(snaps))
                    /\ integs' = Append(integs, InitialIntegrity)
                    /\ bufs' = FreeBufs(os1, objs', bufs, Range(frames))
                    /\ _active_sessions' = reg2
                    /\ resp' = Resp("start", cid, IF r.started THEN 200 ELSE 500)
             /\ UNCHANGED <<now, snaps, frames, saved, cleanup_task, units, threads, feed>>

StartSession(cid, outcome) == StartSessionFor(cid, outcome, MaxSessions) /\ UNCHANGED <<call, life>>

\* POST /api/session/stop
StopSession(cid, fault) ==
    LET sid == get_session(_active_sessions, cid)
    IN  IF sid = NoSid
        THEN /\ resp' = Resp("stop", cid, 400)
             /\ UNCHANGED <<_active_sessions, objs, hist, now, heap, saved, cleanup_task, units, threads, feed>>
        ELSE LET r == stop(objs[sid], fault)
                 reg1 == IF r.raised THEN _active_sessions
                         ELSE clear_session(_active_sessions, cid)
             IN  /\ objs' = Sweep(reg1, [objs EXCEPT ![sid] = r.obj])
                 /\ hist' = Forget(objs', hist)
                 /\ dicts' = FreeDicts(objs, objs', dicts, Range(snaps))
                 /\ bufs' = FreeBufs(objs, objs', bufs, Range(frames))
                 /\ saved' = Save(saved, sid, r.data)
                 /\ _active_sessions' = reg1
                 /\ resp' = Resp("stop", cid, IF r.raised THEN 500 ELSE 200)
                 /\ UNCHANGED <<now, integs, snaps, frames, cleanup_task, units, threads, feed>>

\* POST /api/session/heartbeat
SessionHeartbeat(cid) ==
    LET sid == get_session(_active_sessions, cid)
    IN  IF sid = NoSid
        THEN /\ resp' = Resp("heartbeat", cid, 404)
             /\ UNCHANGED <<_active_sessions, objs, hist, now, heap, saved, cleanup_task, call, units, threads, feed, life>>
        ELSE /\ objs' = [objs EXCEPT ![sid].last_heartbeat = now]
             /\ resp' = Resp("heartbeat", cid, 200)
             /\ UNCHANGED <<_active_sessions, hist, now, heap, saved, cleanup_task, call, units, threads, feed, life>>

\* GET /api/session/summary; session.get_summary() reads the session manager
\* and leaves the instance as it is
GetSummary(cid, raises) ==
    LET sid == get_session(_active_sessions, cid)
    IN  /\ resp' = Resp("summary", cid, IF sid = NoSid THEN 400 ELSE IF raises THEN 500 ELSE 200)
        /\ UNCHANGED <<_active_sessions, objs, hist, now, heap, saved, cleanup_task, call,
                       units, threads, feed, life>>

\* the detail of the answer of start_session: the HTTPException raised for a
\* false start() is caught by `except Exception` of the same try and wrapped
start_detail(r) ==
    IF r.started THEN "started"
    ELSE IF r.raised THEN "Capture error: exception"
    ELSE "Capture error: Failed to start capture: Camera or Microphone may be unavailable"

\* status code and detail of start_session for a device outcome
ReportOf(outcome) ==
    LET r == setup_and_start(Collected, None, 0, outcome)
    IN  [code |-> IF r.started THEN 200 ELSE 500, detail |-> start_detail(r)]

\* no start() or stop() call observed yet
NoCall == [op |-> "none", sid |-> NoSid, input |-> "none", returned |-> "none",
           obj |-> Collected, handed |-> FALSE]

\* start_session, with what session.start() met and returned, and the instance
\* as start() left it
StartObserved(cid, outcome, maxSessions) ==
    /\ StartSessionFor(cid, outcome, maxSessions)
    /\ call' = IF Len(objs') > Len(objs)
               THEN LET r == setup_and_start(NewCaptureSession(now, Len(dicts) + 1),
                                             cid, now, outcome)
                    IN  [op |-> "start", sid |-> Len(objs'), input |-> outcome,
                         returned |-> IF r.raised THEN "raised"
                                      ELSE IF r.started THEN "True" ELSE "False",
                         obj |-> r.obj, handed |-> FALSE]
               ELSE NoCall

\* stop_session, with the call of session.stop() that raised, what stop()
\* returned, the instance as stop() left it and whether save_session stored
\* its session_data
StopObserved(cid, fault) ==
    /\ StopSession(cid, fault)
    /\ call' = LET sid == get_session(_active_sessions, cid)
               IN  IF sid = NoSid THEN NoCall
                   ELSE LET r == stop(objs[sid], fault)
                        IN  [op |-> "stop", sid |-> sid, input |-> fault,
                             returned |-> IF r.raised THEN "raised" ELSE "dict",
                             obj |-> r.obj, handed |-> r.data.stored]

\* no round of a live feed has run yet
NoFeed == [op |-> "none", cid |-> None, sid |-> NoSid, emitted |-> FALSE, task |-> "polling"]

----------------------------------------------------------------------------
\* session_cleanup_task

\* variants of the staleness test: inclusive threshold; running sessions spared
IsStale_AtThreshold(t, o) == t - o.last_heartbeat >= StaleAfter
IsStale_SkipRunning(t, o) == ~o.is_running /\ t - o.last_heartbeat > StaleAfter

\* if current_time - session.last_heartbeat > 60
IsStale(t, o) == t - o.last_heartbeat > StaleAfter

\* for cid, session in list(_active_sessions.items()): ... to_delete.append(cid)
ToDelete(reg, os, t) ==
    LET stale == SelectSeq(reg, LAMBDA e : IsStale(t, os[e.sid]))
    IN  [i \in DOMAIN stale |-> stale[i].cid]

StaleKeys == LET todo == ToDelete(_active_sessions, objs, now) IN {todo[i] : i \in DOMAIN todo}

RECURSIVE CleanupLoop_Unguarded(_, _, _, _, _, _)
\* variant without the inner try/except: a raising stop() ends the pass
CleanupLoop_Unguarded(todo, reg, os, db, errors, fault) ==
    IF todo = <<>> THEN [reg |-> reg, objs |-> os, db |-> db, errors |-> errors]
    ELSE LET cid == Head(todo)
             sid == Lookup(reg, cid)
             r == stop(os[sid], fault[cid])
         IN  IF r.raised
             THEN [reg |-> reg, objs |-> [os EXCEPT ![sid] = r.obj], db |-> db,
                   errors |-> errors + 1]
             ELSE CleanupLoop_Unguarded(Tail(todo), clear_session(reg, cid),
                                        [os EXCEPT ![sid] = r.obj],
                                        Save(db, sid, r.data), errors, fault)

RECURSIVE CleanupLoop(_, _, _, _, _, _)
\* errors counts the logged "[CLEANUP] Error stopping session" lines
\* for cid in to_delete: try: session.stop()  except Exception: log;  clear_session(cid)
CleanupLoop(todo, reg, os, db, errors, fault) ==
    IF todo = <<>> THEN [reg |-> reg, objs |-> os, db |-> db, errors |-> errors]
    ELSE LET cid == Head(todo)
             sid == Lookup(reg, cid)
             r == stop(os[sid], fault[cid])
         IN  CleanupLoop(Tail(todo), clear_session(reg, cid),
                         [os EXCEPT ![sid] = r.obj], Save(db, sid, r.data),
                         IF r.raised THEN errors + 1 ELSE errors, fault)

\* one pass of the `while True` body of session_cleanup_task
CleanupTick(fault) ==
    LET todo == ToDelete(_active_sessions, objs, now)
        r == CleanupLoop(todo, _active_sessions, objs, saved, 0, fault)
    IN  /\ cleanup_task = "sleeping"
        /\ _active_sessions' = r.reg
        /\ objs' = Sweep(r.reg, r.objs)
        /\ hist' = Forget(objs', hist)
        /\ dicts' = FreeDicts(objs, objs', dicts, Range(snaps))
        /\ bufs' = FreeBufs(objs, objs', bufs, Range(frames))
        /\ saved' = r.db
        /\ resp' = [op |-> "cleanup", cid |-> None, code |-> Len(todo), errors |-> r.errors]
        /\ cleanup_task' = "sleeping"
        /\ UNCHANGED <<now, integs, snaps, frames, call, units, threads, feed>>

----------------------------------------------------------------------------
\* The calls made on each instance

\* the calls start_session makes on the instance it has constructed: setup(),
\* then start() unless setup() raised
NewLife(outcome) ==
    [setups |-> 1, starts |-> IF outcome = "setup_raises" THEN 0 ELSE 1,
     stops |-> 0, flushes |-> 0]

\* stop() gets as far as face_logger.stop(), and JsonWriter.flush() completes
Flushes(o, fault) ==
    /\ o.face_logger # "None"
    /\ ~(fault = "camera" /\ o.camera # "None")
    /\ ~(fault = "audio" /\ o.audio # "None")
    /\ fault # "face_logger"

Stopped(l, o, fault) ==
    [l EXCEPT !.stops = @ + 1, !.flushes = IF Flushes(o, fault) THEN @ + 1 ELSE @]

\* start_session with the calls it makes recorded
StartTracked(cid, outcome) ==
    /\ StartObserved(cid, outcome, MaxLifeSessions)
    /\ life' = IF Len(objs') > Len(objs) THEN Append(life, NewLife(outcome)) ELSE life

\* stop_session with the stop() call it makes recorded
StopTracked(cid, fault) ==
    LET sid == get_session(_active_sessions, cid)
    IN  /\ sid # NoSid => life[sid].stops < MaxStops
        /\ StopObserved(cid, fault)
        /\ life' = IF sid = NoSid THEN life
                   ELSE [life EXCEPT ![sid] = Stopped(@, objs[sid], fault)]

\* a pass of session_cleanup_task with its stop() calls recorded: one per key
\* of to_delete
CleanupTracked(fault) ==
    LET stale == {Lookup(_active_sessions, cid) : cid \in StaleKeys}
        cidOf(sid) == CHOOSE cid \in StaleKeys : Lookup(_active_sessions, cid) = sid
    IN  /\ \A sid \in stale : life[sid].stops < MaxStops
        /\ CleanupTick(fault)
        /\ life' = [sid \in DOMAIN life |->
                       IF sid \in stale THEN Stopped(life[sid], objs[sid], fault[cidOf(sid)])
                       ELSE life[sid]]

----------------------------------------------------------------------------
\* Producer threads and the live feeds

\* one iteration of CameraCapture._capture_loop with a frame read:
\* current_frame = frame.copy(), then frame_callback = CaptureSession._on_frame
CaptureFrame(sid, e, maxFrames) ==
    /\ sid \in DOMAIN objs
    /\ objs[sid].camera = "running"
    /\ objs[sid]._total_frame_count < maxFrames
    /\ LET o == objs[sid]
           r == store_frame(o, bufs, Range(frames), o._total_frame_count + 1) IN
        /\ bufs' = r.bufs
        /\ objs' = [objs EXCEPT ![sid] = [on_frame(o, e) EXCEPT !.current_frame = r.ref]]
        /\ dicts' = [dicts EXCEPT ![o._current_signals] = on_frame_signals(@, e)]
        /\ hist' = [hist EXCEPT ![sid] =
                       [@ EXCEPT !.frames = @ + 1,
                                 !.faces = IF e.face_present THEN @ + 1 ELSE @,
                                 !.multi = @ \/ e.multiple_faces,
                                 !.last = e.multiple_faces]]
    /\ resp' = Resp("frame", None, sid)
    /\ UNCHANGED <<_active_sessions, now, integs, snaps, frames, saved, cleanup_task, call, units, threads, feed, life>>

\* AudioCapture._audio_callback while running, then CaptureSession._on_audio_chunk
AudioChunk(sid, status, voice_active) ==
    /\ sid \in DOMAIN objs
    /\ objs[sid].audio = "running"
    /\ LET o == objs[sid] IN
        /\ objs' = [objs EXCEPT ![sid] = on_audio_chunk(o, status)]
        /\ dicts' = [dicts EXCEPT ![o._current_signals].voice_activity =
                                       IF voice_active THEN "active" ELSE "silent"]
        /\ hist' = [hist EXCEPT ![sid].anomaly = @ \/ status]
    /\ resp' = [Resp("audio", None, sid) EXCEPT !.errors = IF status THEN 1 ELSE 0]
    /\ UNCHANGED <<_active_sessions, now, integs, snaps, bufs, frames, saved, cleanup_task, call, units, threads, feed, life>>

\* one round of websocket_live for a running session: the dict it obtains
WebsocketLive(cid) ==
    LET sid == get_session(_active_sessions, cid) IN
    /\ sid # NoSid
    /\ objs[sid].is_running
    /\ Len(snaps) + Len(frames) < MaxSnaps
    /\ LET r == get_current_signals(objs[sid], dicts, integs, now) IN
        /\ dicts' = r.dicts
        /\ integs' = r.integs
        /\ snaps' = Append(snaps, r.ref)
    /\ resp' = Resp("live", cid, sid)
    /\ UNCHANGED <<_active_sessions, objs, hist, now, bufs, frames, saved, cleanup_task, call, units, threads, feed, life>>

\* one round of generate_frames for a running session with a frame
VideoFeed(cid) ==
    LET sid == get_session(_active_sessions, cid) IN
    /\ sid # NoSid
    /\ objs[sid].is_running
    /\ Len(snaps) + Len(frames) < MaxSnaps
    /\ LET r == get_current_frame(objs[sid], bufs) IN
        /\ r.ref # 0
        /\ bufs' = r.bufs
        /\ frames' = Append(frames, r.ref)
    /\ resp' = Resp("video", cid, sid)
    /\ UNCHANGED <<_active_sessions, objs, hist, now, dicts, integs, snaps, saved, cleanup_task, call, units, threads, feed, life>>

\* a reader writes into the dict it was handed: a top-level key, or a key of
\* the nested integrity dict
MutateSnapshot(i, nested) ==
    /\ i \in DOMAIN snaps
    /\ IF nested
       THEN /\ integs' = [integs EXCEPT ![dicts[snaps[i]].integrity].multiple_faces = ~@]
            /\ dicts' = dicts
       ELSE /\ dicts' = [dicts EXCEPT ![snaps[i]].blink = ~@]
            /\ integs' = integs
    /\ resp' = Resp("mutate", None, i)
    /\ UNCHANGED <<_active_sessions, objs, hist, now, snaps, bufs, frames, saved, cleanup_task, call, units, threads, feed, life>>

\* a reader writes into the frame array it was handed
MutateFrame(i) ==
    /\ i \in DOMAIN frames
    /\ bufs' = [bufs EXCEPT ![frames[i]] = 0 - @]
    /\ resp' = Resp("mutate_frame", None, i)
    /\ UNCHANGED <<_active_sessions, objs, hist, now, dicts, integs, snaps, frames, saved,
                   cleanup_task, call, units, threads, feed, life>>

\* the passage of time between steps
Advance(d) ==
    /\ now + d <= MaxTime
    /\ now' = now + d
    /\ resp' = Resp("advance", None, d)
    /\ UNCHANGED <<_active_sessions, objs, hist, heap, saved, cleanup_task, call, units, threads, feed, life>>

\* variant of the idle payload that repeats the dict of a new instance
IdleSignals_FromInit == [InitialSignals(0) EXCEPT !.integrity = InitialIntegrity]

\* the literal dict websocket_live sends when get_session returns no session
\* or one that is not running
IdleSignals ==
    [face_detected |-> FALSE, eye_direction |-> "unknown", head_movement |-> "unknown",
     blink |-> FALSE, voice_activity |-> "silent",
     integrity |-> [face_continuous |-> FALSE, multiple_faces |-> FALSE,
                    audio_interruptions |-> FALSE],
     elapsed_sec |-> 0, session_active |-> FALSE]

\* one round of the `while True` body of websocket_live: send_json serialises
\* the dict, so what is emitted is its value
LiveFeedRound(cid) ==
    LET sid == get_session(_active_sessions, cid)
        running == sid # NoSid /\ objs[sid].is_running
    IN  /\ feed' = [op |-> "live", cid |-> cid, sid |-> sid, emitted |-> TRUE,
                    task |-> "polling", idle |-> ~running,
                    payload |-> IF running THEN SignalsNow(objs[sid]) ELSE IdleSignals]
        /\ resp' = Resp("live_round", cid, sid)
        /\ UNCHANGED <<_active_sessions, objs, hist, now, heap, saved, cleanup_task, call,
                       units, threads, life>>

\* variant of generate_frames that does not test session.is_running
FrameFeedRound_AnySession(cid, encodes) ==
    LET sid == get_session(_active_sessions, cid)
        frame == IF sid # NoSid THEN get_current_frame(objs[sid], bufs)
                 ELSE [bufs |-> bufs, ref |-> 0]
        yields == frame.ref # 0 /\ encodes
    IN  /\ feed' = [op |-> "video", cid |-> cid, sid |-> sid, emitted |-> yields,
                    task |-> "polling",
                    image |-> IF yields THEN frame.bufs[frame.ref] ELSE 0]
        /\ resp' = Resp("video_round", cid, sid)
        /\ UNCHANGED <<_active_sessions, objs, hist, now, heap, saved, cleanup_task, call,
                       units, threads, life>>

\* one round of the `while True` body of generate_frames: the copy returned by
\* get_current_frame is encoded (ret, buffer = cv2.imencode) and yielded, or the
\* round sleeps; the copy is dropped at the end of the round
FrameFeedRound(cid, encodes) ==
    LET sid == get_session(_active_sessions, cid)
        running == sid # NoSid /\ objs[sid].is_running
        frame == IF running THEN get_current_frame(objs[sid], bufs)
                 ELSE [bufs |-> bufs, ref |-> 0]
        yields == frame.ref # 0 /\ encodes
    IN  /\ feed' = [op |-> "video", cid |-> cid, sid |-> sid, emitted |-> yields,
                    task |-> "polling",
                    image |-> IF yields THEN frame.bufs[frame.ref] ELSE 0]
        /\ resp' = Resp("video_round", cid, sid)
        /\ UNCHANGED <<_active_sessions, objs, hist, now, heap, saved, cleanup_task, call,
                       units, threads, life>>

----------------------------------------------------------------------------
\* Capture units

\* CameraCapture.__init__, with the position of its capture thread (pc, the
\* frame it holds) and of a caller inside stop()
NewCameraCapture ==
    [is_running |-> FALSE, thread |-> "None", cap |-> "None", writer |-> "None",
     current_frame |-> 0,
     pc |-> "test", frame |-> 0, reads |-> 0, raised |-> FALSE,
     stopper |-> "idle",
     stored |-> <<>>, writes |-> <<>>, file |-> <<>>]

\* json.dump has not written the log file (frames are numbered from 1)
NoFile == <<0 - 1>>

\* process_frame has not returned an entry
NoEntry == [frame_timestamp |-> NoTime]

\* FaceLogger.__init__ and its JsonWriter: entries, the file on disk, the
\* frames process_frame was invoked for and what it returned last (observers)
NewFaceLogger ==
    [state |-> "created", session_start |-> NoTime, entries |-> <<>>, file |-> NoFile,
     invoked |-> <<>>, returned |-> NoEntry]

\* AudioCapture.__init__, with the driver's stream, what start() returned, how
\* far a stop() call is, the WAV file, and the blocks the driver delivered with
\* whether stop() had been called by then (observer)
NewAudioCapture ==
    [is_running |-> FALSE, stream |-> "None", audio_buffer |-> <<>>, blocks |-> 0,
     forwarded |-> <<>>, raised |-> FALSE,
     started |-> "none", stopper |-> "idle", wav |-> NoFile, arrived |-> <<>>]

\* wall-clock times are kept in tenths of a millisecond: the times start() is
\* called at and the timestamps the capture loop passes
LogStartTimes == {10000, 15004}
LogTimestamps == {15004, 22507}

\* FaceLogger.start() at time t: session_start = time.time(); json_writer.clear()
LoggerStartAt(t) ==
    /\ flog.state = "created"
    /\ flog' = [flog EXCEPT !.state = "started", !.session_start = t, !.entries = <<>>]
    /\ UNCHANGED <<session_vars, head_tracker, cam, mic, tracker, detector>>

\* FaceLogger.start() where the time does not matter
LoggerStart == LoggerStartAt(10000)

\* round(relative_time, 3): to the nearest millisecond
round3(x) == (x + 5) \div 10

\* relative_time = timestamp - self.session_start if self.session_start else 0.0
relative_time(fl, timestamp) ==
    IF fl.session_start # NoTime /\ fl.session_start # 0
    THEN timestamp - fl.session_start ELSE 0

\* FaceLogger.process_frame for the two trackers' results on the frame:
\* entry = {...}; self.json_writer.append(entry); return entry
LogFrame(eye, head, timestamp) ==
    /\ flog.state = "started" /\ Len(flog.invoked) < MaxLogFrames
    /\ LET entry == [frame_timestamp |-> round3(relative_time(flog, timestamp))]
                        @@ log_entry(eye, head)
       IN  flog' = [flog EXCEPT !.invoked = Append(@, [eye |-> eye, head |-> head,
                                                       timestamp |-> timestamp]),
                                !.entries = Append(@, entry),
                                !.returned = entry]
    /\ UNCHANGED <<session_vars, head_tracker, cam, mic, tracker, detector>>

\* CameraCapture.start(): the device and the encoder open or do not
CamStart(device, encoder) ==
    /\ flog.state = "started"
    /\ cam.thread = "None" /\ cam.cap = "None"
    /\ cam' = IF ~device THEN [cam EXCEPT !.cap = "closed"]
              ELSE IF ~encoder THEN [cam EXCEPT !.cap = "released", !.writer = "closed"]
              ELSE [cam EXCEPT !.cap = "open", !.writer = "open", !.is_running = TRUE,
                               !.thread = "alive", !.pc = "test"]
    /\ UNCHANGED <<session_vars, head_tracker, flog, mic, tracker, detector>>

\* _capture_loop: while self.is_running
LoopTest ==
    /\ cam.thread = "alive" /\ cam.pc = "test"
    /\ cam' = IF cam.is_running THEN [cam EXCEPT !.pc = "read"]
              ELSE [cam EXCEPT !.thread = "exited"]
    /\ UNCHANGED <<session_vars, head_tracker, flog, mic, tracker, detector>>

\* ret, frame = self.cap.read(); if not ret: continue
\* (a released device reads nothing)
LoopRead(ret) ==
    /\ cam.thread = "alive" /\ cam.pc = "read"
    /\ ret => cam.cap = "open" /\ cam.reads < MaxCamFrames
    /\ cam' = IF ret THEN [cam EXCEPT !.frame = cam.reads + 1, !.reads = @ + 1, !.pc = "store"]
              ELSE [cam EXCEPT !.pc = "test"]
    /\ UNCHANGED <<session_vars, head_tracker, flog, mic, tracker, detector>>

\* with self.frame_lock: self.current_frame = frame.copy()
LoopStore ==
    /\ cam.thread = "alive" /\ cam.pc = "store"
    /\ cam' = [cam EXCEPT !.current_frame = cam.frame, !.pc = "write",
                          !.stored = Append(@, cam.frame)]
    /\ UNCHANGED <<session_vars, head_tracker, flog, mic, tracker, detector>>

\* self.writer.write(frame): a released VideoWriter drops the frame silently
LoopWrite ==
    /\ cam.thread = "alive" /\ cam.pc = "write"
    /\ cam' = [cam EXCEPT !.pc = "callback",
                          !.writes = Append(@, cam.frame),
                          !.file = IF cam.writer = "open" THEN Append(@, cam.frame) ELSE @]
    /\ UNCHANGED <<session_vars, head_tracker, flog, mic, tracker, detector>>

\* what can raise inside the frame callback: nothing, the trackers inside
\* process_frame (before the entry is appended), or _on_frame after it
CallbackFaults == {"none", "process_frame", "on_frame"}

\* FaceLogger.process_frame: self.json_writer.append(entry)
process_frame(fl, frame, fault) ==
    [fl EXCEPT !.invoked = Append(@, frame),
               !.entries = IF fault = "process_frame" THEN @ ELSE Append(@, frame)]

\* self.frame_callback(frame, time.time()) = CaptureSession._on_frame, then the
\* FPS report and time.sleep(0.001); nothing in the loop catches an exception
LoopCallback(fault) ==
    /\ cam.thread = "alive" /\ cam.pc = "callback"
    /\ flog' = process_frame(flog, cam.frame, fault)
    /\ cam' = IF fault = "none" THEN [cam EXCEPT !.pc = "test", !.frame = 0]
              ELSE [cam EXCEPT !.thread = "crashed", !.raised = TRUE]
    /\ UNCHANGED <<session_vars, head_tracker, mic, tracker, detector>>

\* CameraCapture.stop(): self.is_running = False, then the caller waits in
\* self.thread.join(timeout=2.0)
CamStopBegin ==
    /\ cam.stopper = "idle" /\ cam.thread # "None"
    /\ cam' = [cam EXCEPT !.is_running = FALSE, !.stopper = "joining"]
    /\ UNCHANGED <<session_vars, head_tracker, flog, mic, tracker, detector>>

\* variant whose join has no timeout: it returns only once the thread is gone
CamStopJoin_Unbounded ==
    /\ cam.stopper = "joining" /\ cam.thread # "alive"
    /\ cam' = [cam EXCEPT !.writer = "released", !.cap = "released", !.stopper = "returned"]
    /\ UNCHANGED <<session_vars, head_tracker, flog, mic, tracker, detector>>

\* join returns, the thread gone or the 2 s over; writer.release(); cap.release()
CamStopJoin ==
    /\ cam.stopper = "joining"
    /\ cam' = [cam EXCEPT !.writer = "released", !.cap = "released", !.stopper = "returned"]
    /\ UNCHANGED <<session_vars, head_tracker, flog, mic, tracker, detector>>

\* FaceLogger.stop(), called by CaptureSession.stop() after camera.stop() has
\* returned: json_writer.flush(), then the trackers are closed
LoggerStop ==
    /\ cam.stopper = "returned" /\ flog.state = "started"
    /\ flog' = [flog EXCEPT !.state = "stopped", !.file = flog.entries]
    /\ UNCHANGED <<session_vars, head_tracker, cam, mic, tracker, detector>>

\* what opening the input can meet: it opens, sd.InputStream(...) raises, or
\* stream.start() raises
MicOutcomes == {"ok", "no_device", "no_start"}

\* AudioCapture.start(): every exception is caught and answered with False
MicStartWith(outcome) ==
    /\ mic.stream = "None" /\ mic.started = "none"
    /\ mic' = CASE outcome = "ok" ->
                     [mic EXCEPT !.is_running = TRUE, !.audio_buffer = <<>>,
                                 !.stream = "active", !.started = "True"]
                [] outcome = "no_device" ->
                     [mic EXCEPT !.is_running = FALSE, !.audio_buffer = <<>>,
                                 !.started = "False"]
                [] OTHER ->
                     [mic EXCEPT !.is_running = FALSE, !.audio_buffer = <<>>,
                                 !.stream = "unstarted", !.started = "False"]
    /\ UNCHANGED <<session_vars, head_tracker, cam, flog, tracker, detector>>

\* AudioCapture.start() with an input that opens
MicStart == MicStartWith("ok")

\* variant of _audio_callback without the is_running test
MicBlock_Unguarded(status, fault, aborts) ==
    /\ mic.stream = "active" /\ mic.blocks < MaxBlocks
    /\ aborts => fault
    /\ mic' = [mic EXCEPT !.blocks = @ + 1,
                          !.arrived = Append(@, [block |-> mic.blocks + 1, status |-> status,
                                                 stopping |-> mic.stopper # "idle"]),
                          !.audio_buffer = Append(@, mic.blocks + 1),
                          !.forwarded = Append(@, [block |-> mic.blocks + 1,
                                                   status |-> status]),
                          !.raised = @ \/ fault,
                          !.stream = IF aborts THEN "aborted" ELSE @]
    /\ UNCHANGED <<session_vars, head_tracker, cam, flog, tracker, detector>>

\* _audio_callback for one block of the driver, with the driver's status flag;
\* an exception of chunk_callback leaves it uncaught, and the driver keeps or
\* aborts the stream
MicBlock(status, fault, aborts) ==
    /\ mic.stream = "active" /\ mic.blocks < MaxBlocks
    /\ aborts => (fault /\ mic.is_running)
    /\ mic' = IF ~mic.is_running
              THEN [mic EXCEPT !.blocks = @ + 1,
                               !.arrived = Append(@, [block |-> mic.blocks + 1, status |-> status,
                                                      stopping |-> mic.stopper # "idle"])]
              ELSE [mic EXCEPT !.blocks = @ + 1,
                               !.arrived = Append(@, [block |-> mic.blocks + 1, status |-> status,
                                                      stopping |-> mic.stopper # "idle"]),
                               !.audio_buffer = Append(@, mic.blocks + 1),
                               !.forwarded = Append(@, [block |-> mic.blocks + 1,
                                                        status |-> status]),
                               !.raised = @ \/ fault,
                               !.stream = IF aborts THEN "aborted" ELSE @]
    /\ UNCHANGED <<session_vars, head_tracker, cam, flog, tracker, detector>>

\* _save_audio: nothing is written for an empty buffer, else the blocks are
\* concatenated, scaled to 16-bit PCM and written
_save_audio(audio_buffer) == IF audio_buffer = <<>> THEN NoFile ELSE audio_buffer

\* AudioCapture.stop(), first statement: self.is_running = False
MicStopBegin ==
    /\ mic.started # "none" /\ mic.stopper = "idle"
    /\ mic' = [mic EXCEPT !.is_running = FALSE, !.stopper = "closing"]
    /\ UNCHANGED <<session_vars, head_tracker, cam, flog, tracker, detector>>

\* AudioCapture.stop(), the rest: if self.stream: stream.stop(); stream.close();
\* then self._save_audio()
MicStopClose ==
    /\ mic.stopper = "closing"
    /\ mic' = [mic EXCEPT !.stream = IF @ = "None" THEN @ ELSE "closed",
                          !.wav = _save_audio(mic.audio_buffer),
                          !.stopper = "returned"]
    /\ UNCHANGED <<session_vars, head_tracker, cam, flog, tracker, detector>>

\* AudioCapture.stop() with no block delivered while it runs
MicStop ==
    /\ mic.stream \in {"active", "aborted"} /\ mic.stopper = "idle"
    /\ mic' = [mic EXCEPT !.is_running = FALSE, !.stream = "closed",
                          !.wav = _save_audio(mic.audio_buffer),
                          !.stopper = "returned"]
    /\ UNCHANGED <<session_vars, head_tracker, cam, flog, tracker, detector>>


\* Ratios are kept in hundredths; the mean of the two eyes, (l + r) / 2.0, is
\* kept as the sum l + r, in two-hundredths, and compared with twice the threshold.
EAR_THRESHOLD == 21         \* eye_tracking.py:35  EAR_THRESHOLD = 0.21
InitialPrevEar == 100       \* eye_tracking.py:45  self.prev_ear = 1.0
GazeLeftBelow == 35         \* eye_tracking.py:144 avg_ratio < 0.35
GazeRightAbove == 65        \* eye_tracking.py:146 avg_ratio > 0.65
HalfWidth == 50             \* eye_tracking.py:131 left_ratio = 0.5
NoFaceSeen == -1            \* results.multi_face_landmarks is empty
NoWidth == -1               \* an eye whose corners coincide (eye width <= 0)

\* EyeTracker.__init__, with the result of the last process_frame and what
\* the tracker was fed and answered (observer): per frame the sum of the two
\* eye aspect ratios (NoFaceSeen for a frame without a face) and the blink flag
NewEyeTracker ==
    [prev_ear |-> 2 * InitialPrevEar,
     last |-> [face_present |-> FALSE, blink |-> FALSE, eye_direction |-> "none"],
     ears |-> <<>>, blinks |-> <<>>, ratio |-> NoFaceSeen]

\* left_ratio / right_ratio: (iris.x - corner.x) / width if width > 0 else 0.5
eye_ratio(r) == IF r = NoWidth THEN HalfWidth ELSE r

\* variant of the classification with inclusive thresholds
calculate_gaze_direction_Inclusive(left_ratio, right_ratio) ==
    LET avg_ratio == eye_ratio(left_ratio) + eye_ratio(right_ratio)
    IN  IF avg_ratio <= 2 * GazeLeftBelow THEN "left"
        ELSE IF avg_ratio >= 2 * GazeRightAbove THEN "right"
        ELSE "center"

\* _calculate_gaze_direction: avg_ratio = (left_ratio + right_ratio) / 2.0
calculate_gaze_direction(left_ratio, right_ratio) ==
    LET avg_ratio == eye_ratio(left_ratio) + eye_ratio(right_ratio)
    IN  IF avg_ratio < 2 * GazeLeftBelow THEN "left"
        ELSE IF avg_ratio > 2 * GazeRightAbove THEN "right"
        ELSE "center"

\* blink_detected = avg_ear < EAR_THRESHOLD and self.prev_ear >= EAR_THRESHOLD
blink_detected(avg_ear, prev_ear) ==
    avg_ear < 2 * EAR_THRESHOLD /\ prev_ear >= 2 * EAR_THRESHOLD

\* EyeTracker.process_frame on a frame with (face) or without a face, the
\* aspect ratios of the two eyes and their iris offset ratios
eye_process_frame(t, face, left_ear, right_ear, left_ratio, right_ratio) ==
    IF ~face
    THEN [t EXCEPT !.last = [face_present |-> FALSE, blink |-> FALSE,
                             eye_direction |-> "center"],
                   !.ears = Append(@, NoFaceSeen), !.blinks = Append(@, FALSE),
                   !.ratio = NoFaceSeen]
    ELSE LET avg_ear == left_ear + right_ear
             blink == blink_detected(avg_ear, t.prev_ear)
         IN  [t EXCEPT !.prev_ear = avg_ear,
                       !.last = [face_present |-> TRUE, blink |-> blink,
                                 eye_direction |->
                                     calculate_gaze_direction(left_ratio, right_ratio)],
                       !.ears = Append(@, avg_ear), !.blinks = Append(@, blink),
                       !.ratio = eye_ratio(left_ratio) + eye_ratio(right_ratio)]

\* the eye aspect ratios and iris offset ratios of the frames fed
EarPairs == {<<30, 30>>, <<25, 25>>, <<21, 21>>, <<20, 21>>, <<19, 19>>, <<18, 18>>}
RatioPairs == {<<20, 20>>, <<34, 35>>, <<35, 35>>, <<50, NoWidth>>, <<65, 65>>,
               <<65, 66>>, <<80, 80>>}

\* one frame through EyeTracker.process_frame
EyeFrame(face, ear, ratio) ==
    /\ Len(tracker.ears) < MaxEyeFrames
    /\ tracker' = eye_process_frame(tracker, face, ear[1], ear[2], ratio[1], ratio[2])
    /\ UNCHANGED <<session_vars, head_tracker, cam, flog, mic, detector>>

\* Sample values and RMS energies are kept in thousandths, durations in
\* hundredths of a second.
ENERGY_THRESHOLD == 20      \* voice_activity.py:16  ENERGY_THRESHOLD = 0.02
SampleRate == 44100         \* voice_activity.py:18  sample_rate: int = 44100

\* get_statistics has not been called since the last chunk
NoStatistics ==
    [asked |-> FALSE, voice_detected |-> FALSE, total_speaking_time_sec |-> 0,
     total_duration_sec |-> 0, average_volume |-> [floored |-> TRUE, sum |-> 0, count |-> 0]]

\* VoiceActivityDetector.__init__, with the result of the last get_statistics
\* and the chunks fed and the answers given (observer)
NewVoiceActivityDetector ==
    [sample_rate |-> SampleRate, total_frames |-> 0, voice_frames |-> 0, rms_values |-> <<>>,
     stats |-> NoStatistics, fed |-> <<>>, voices |-> <<>>]

Abs(x) == IF x < 0 THEN 0 - x ELSE x

\* rms = np.sqrt(np.mean(audio_chunk ** 2)) of a chunk whose samples all have
\* the value amplitude
rms_of(amplitude) == Abs(amplitude)

\* variant with an inclusive threshold
process_chunk_Inclusive(d, amplitude, chunk_frames) ==
    LET rms == rms_of(amplitude)
        voice_detected == rms >= ENERGY_THRESHOLD
    IN  [d EXCEPT !.total_frames = @ + chunk_frames,
                  !.voice_frames = IF voice_detected THEN @ + chunk_frames ELSE @,
                  !.rms_values = Append(@, rms),
                  !.stats = NoStatistics,
                  !.fed = Append(@, [amplitude |-> amplitude, frames |-> chunk_frames]),
                  !.voices = Append(@, voice_detected)]

\* VoiceActivityDetector.process_chunk
process_chunk(d, amplitude, chunk_frames) ==
    LET rms == rms_of(amplitude)
        voice_detected == rms > ENERGY_THRESHOLD
    IN  [d EXCEPT !.total_frames = @ + chunk_frames,
                  !.voice_frames = IF voice_detected THEN @ + chunk_frames ELSE @,
                  !.rms_values = Append(@, rms),
                  !.stats = NoStatistics,
                  !.fed = Append(@, [amplitude |-> amplitude, frames |-> chunk_frames]),
                  !.voices = Append(@, voice_detected)]

RECURSIVE SumSeq(_)
SumSeq(q) == IF q = <<>> THEN 0 ELSE Head(q) + SumSeq(Tail(q))

\* round(n / d, 2) in hundredths, for n, d that meet no tie
round2(n, d) == (200 * n + d) \div (2 * d)

\* avg_volume_db: -100.0 (floored), or 20 * np.log10(avg_rms) of the mean
\* sum / count, which is kept unevaluated
volume_db(rms_values) ==
    IF rms_values # <<>> /\ SumSeq(rms_values) > 0
    THEN [floored |-> FALSE, sum |-> SumSeq(rms_values), count |-> Len(rms_values)]
    ELSE [floored |-> TRUE, sum |-> 0, count |-> 0]

\* variant that takes the logarithm of every mean of a non-empty list, so that
\* a mean of zero is not floored
get_statistics_Unfloored(d) ==
    [asked |-> TRUE,
     voice_detected |-> d.voice_frames > 0,
     total_speaking_time_sec |-> round2(d.voice_frames, d.sample_rate),
     total_duration_sec |-> round2(d.total_frames, d.sample_rate),
     average_volume |-> IF d.rms_values # <<>>
                        THEN [floored |-> FALSE, sum |-> SumSeq(d.rms_values),
                              count |-> Len(d.rms_values)]
                        ELSE [floored |-> TRUE, sum |-> 0, count |-> 0]]

\* VoiceActivityDetector.get_statistics
get_statistics(d) ==
    [asked |-> TRUE,
     voice_detected |-> d.voice_frames > 0,
     total_speaking_time_sec |-> round2(d.voice_frames, d.sample_rate),
     total_duration_sec |-> round2(d.total_frames, d.sample_rate),
     average_volume |-> volume_db(d.rms_values)]

\* the chunks fed: constant sample value, frame count
Amplitudes == {0, 20, 21, -50}
ChunkFrames == {1024, 44100}

\* one chunk through process_chunk
VadChunk(amplitude, chunk_frames) ==
    /\ Len(detector.fed) < MaxChunks
    /\ detector' = process_chunk(detector, amplitude, chunk_frames)
    /\ UNCHANGED <<session_vars, head_tracker, cam, flog, mic, tracker>>

\* a call of get_statistics
VadStatistics ==
    /\ ~detector.stats.asked
    /\ detector' = [detector EXCEPT !.stats = get_statistics(detector)]
    /\ UNCHANGED <<session_vars, head_tracker, cam, flog, mic, tracker>>


\* HeadMovementTracker (head_movement.py).  The five key landmarks move rigidly
\* along one axis, so a frame is the position of the head and the mean landmark
\* distance between two frames is the distance between their positions;
\* positions and displacements are kept in thousandths of the normalised unit.
LOW_THRESHOLD == 5          \* head_movement.py:21  LOW_THRESHOLD = 0.005
MEDIUM_THRESHOLD == 15      \* head_movement.py:22  MEDIUM_THRESHOLD = 0.015
HISTORY_SIZE == 5           \* head_movement.py:25  HISTORY_SIZE = 5
NoLandmarks == -1           \* prev_landmarks is None

\* __init__; fed lists the frames given to process_frame, result is what the
\* last call returned
NewHeadMovementTracker ==
    [prev_landmarks |-> NoLandmarks, movement_history |-> <<>>, fed |-> <<>>,
     result |-> [face_present |-> FALSE, intensity |-> "low"]]

\* deque(maxlen = HISTORY_SIZE).append
deque_append(q, x) ==
    IF Len(q) < HISTORY_SIZE THEN Append(q, x) ELSE Append(Tail(q), x)

\* _calculate_movement_delta: the mean landmark distance
_calculate_movement_delta(current, previous) == Abs(current - previous)

\* _classify_intensity with both thresholds inclusive
_classify_intensity_Inclusive(total, n) ==
    IF total <= LOW_THRESHOLD * n THEN "low"
    ELSE IF total <= MEDIUM_THRESHOLD * n THEN "medium"
    ELSE "high"

\* _classify_intensity(np.mean(history)): the mean is total / n
_classify_intensity(total, n) ==
    IF total < LOW_THRESHOLD * n THEN "low"
    ELSE IF total < MEDIUM_THRESHOLD * n THEN "medium"
    ELSE "high"

\* HeadMovementTracker.process_frame; landmarks = NoFaceSeen when the face mesh
\* finds no face
head_process_frame(h, landmarks) ==
    LET fed == Append(h.fed, landmarks)
    IN  IF landmarks = NoFaceSeen
        THEN [h EXCEPT !.fed = fed, !.prev_landmarks = NoLandmarks,
                       !.result = [face_present |-> FALSE, intensity |-> "low"]]
        ELSE IF h.prev_landmarks = NoLandmarks
        THEN [h EXCEPT !.fed = fed, !.prev_landmarks = landmarks,
                       !.result = [face_present |-> TRUE, intensity |-> "low"]]
        ELSE LET delta == _calculate_movement_delta(landmarks, h.prev_landmarks)
                 history == deque_append(h.movement_history, delta)
             IN  [h EXCEPT !.fed = fed, !.prev_landmarks = landmarks,
                           !.movement_history = history,
                           !.result = [face_present |-> TRUE,
                                       intensity |-> _classify_intensity(SumSeq(history),
                                                                         Len(history))]]

\* the frames exercised: no face, and heads at three positions
HeadPositions == {0, 5, 20}

\* one frame through HeadMovementTracker.process_frame
HeadFrame(landmarks) ==
    /\ Len(head_tracker.fed) < MaxHeadFrames
    /\ head_tracker' = head_process_frame(head_tracker, landmarks)
    /\ UNCHANGED <<session_vars, cam, flog, mic, tracker, detector>>

\* One CaptureSession with its capture thread inside _on_frame, its audio
\* thread inside _on_audio_chunk and a reader inside get_current_signals,
\* statement by statement.  lock is the holder of _signal_lock; fed lists the
\* entries the frame callback was entered with and returned holds the last
\* snapshot get_current_signals handed out (observers).
NewThreads ==
    [lock |-> "free",
     o |-> NewCaptureSession(0, 0),
     signals |-> [InitialSignals(0) EXCEPT !.integrity = InitialIntegrity],
     frame_pc |-> "idle", entry |-> NoFace, fed |-> <<>>,
     audio_pc |-> "idle", voice_active |-> FALSE,
     reader_pc |-> "idle",
     copy |-> [InitialSignals(0) EXCEPT !.integrity = InitialIntegrity],
     returned |-> <<>>]

\* everything but the threads
beside_threads == <<_active_sessions, objs, hist, now, resp, heap, saved, cleanup_task, call,
                    units, feed, life>>

\* _on_frame: entry = self.face_logger.process_frame(frame, timestamp)
FrameEnter(e) ==
    /\ threads.frame_pc = "idle" /\ Len(threads.fed) < MaxLockFrames
    /\ threads' = [threads EXCEPT !.entry = e, !.fed = Append(@, e), !.frame_pc = "total"]
    /\ UNCHANGED beside_threads

\* self._total_frame_count += 1
FrameTotal ==
    /\ threads.frame_pc = "total"
    /\ threads' = [threads EXCEPT !.o._total_frame_count = @ + 1, !.frame_pc = "present"]
    /\ UNCHANGED beside_threads

\* if entry["face_present"]: self._face_present_count += 1
FramePresent ==
    /\ threads.frame_pc = "present"
    /\ threads' = [threads EXCEPT
                      !.o._face_present_count = IF threads.entry.face_present THEN @ + 1 ELSE @,
                      !.frame_pc = "multiple"]
    /\ UNCHANGED beside_threads

\* self._multiple_faces_detected = entry.get("multiple_faces", False)
FrameMultiple ==
    /\ threads.frame_pc = "multiple"
    /\ threads' = [threads EXCEPT !.o._multiple_faces_detected = threads.entry.multiple_faces,
                                  !.frame_pc = "latch"]
    /\ UNCHANGED beside_threads

\* if multiple_faces: self._multiple_faces_latch = True
FrameLatch ==
    /\ threads.frame_pc = "latch"
    /\ threads' = [threads EXCEPT
                      !.o._multiple_faces_latch = IF threads.entry.multiple_faces THEN TRUE ELSE @,
                      !.frame_pc = "acquire"]
    /\ UNCHANGED beside_threads

\* with self._signal_lock: (the thread waits while another holds the lock)
FrameAcquire ==
    /\ threads.frame_pc = "acquire" /\ threads.lock = "free"
    /\ threads' = [threads EXCEPT !.lock = "frame", !.frame_pc = "face_detected"]
    /\ UNCHANGED beside_threads

\* the four assignments to self._current_signals, one per step; leaving the
\* with block after the last releases the lock
FrameWrite ==
    /\ threads.frame_pc \in {"face_detected", "eye_direction", "head_movement", "blink"}
    /\ threads' =
          CASE threads.frame_pc = "face_detected" ->
                 [threads EXCEPT !.signals.face_detected = threads.entry.face_present,
                                 !.frame_pc = "eye_direction"]
            [] threads.frame_pc = "eye_direction" ->
                 [threads EXCEPT !.signals.eye_direction = threads.entry.eye_direction,
                                 !.frame_pc = "head_movement"]
            [] threads.frame_pc = "head_movement" ->
                 [threads EXCEPT !.signals.head_movement = threads.entry.head_movement,
                                 !.frame_pc = "blink"]
            [] OTHER ->
                 [threads EXCEPT !.signals.blink = threads.entry.blink,
                                 !.frame_pc = "idle", !.lock = "free"]
    /\ UNCHANGED beside_threads

\* _on_audio_chunk: if status: self._audio_interruptions = True;
\* voice_active = self.vad.process_chunk(chunk, frames)
AudioEnter(status, voice_active) ==
    /\ threads.audio_pc = "idle"
    /\ threads' = [threads EXCEPT !.o = on_audio_chunk(@, status),
                                  !.voice_active = voice_active,
                                  !.audio_pc = "acquire"]
    /\ UNCHANGED beside_threads

\* with self._signal_lock: self._current_signals["voice_activity"] = ...
AudioVoice ==
    /\ threads.audio_pc = "acquire" /\ threads.lock = "free"
    /\ threads' = [threads EXCEPT
                      !.signals.voice_activity = IF threads.voice_active THEN "active" ELSE "silent",
                      !.audio_pc = "idle"]
    /\ UNCHANGED beside_threads

\* variant of get_current_signals that copies without taking the lock
ReadCopy_Unlocked ==
    /\ threads.reader_pc = "idle"
    /\ threads' = [threads EXCEPT !.copy = threads.signals, !.reader_pc = "integrity"]
    /\ UNCHANGED beside_threads

\* get_current_signals: with self._signal_lock: signals = self._current_signals.copy()
ReadCopy ==
    /\ threads.reader_pc = "idle"
    /\ threads.lock = "free"
    /\ threads' = [threads EXCEPT !.copy = threads.signals, !.reader_pc = "integrity"]
    /\ UNCHANGED beside_threads

\* get_current_signals, after the lock is released: the integrity dict is
\* computed from the counters and flags and the copy returned
ReadIntegrity ==
    /\ threads.reader_pc = "integrity"
    /\ threads' = [threads EXCEPT
                      !.returned = <<[threads.copy EXCEPT
                                         !.integrity = integrity_of(threads.o)]>>,
                      !.reader_pc = "idle"]
    /\ UNCHANGED beside_threads

----------------------------------------------------------------------------

Init ==
    /\ _active_sessions = <<>>
    /\ objs = <<>>
    /\ hist = <<>>
    /\ now = 0
    /\ resp = Resp("init", None, 0)
    /\ dicts = <<>>
    /\ integs = <<>>
    /\ snaps = <<>>
    /\ bufs = <<>>
    /\ frames = <<>>
    /\ saved = [sid |-> NoSid, multiple_faces_detected |-> FALSE,
                audio_interruptions_detected |-> FALSE]
    /\ cleanup_task = "sleeping"
    /\ call = NoCall
    /\ cam = NewCameraCapture
    /\ flog = NewFaceLogger
    /\ mic = NewAudioCapture
    /\ tracker = NewEyeTracker
    /\ detector = NewVoiceActivityDetector
    /\ feed = NoFeed
    /\ life = <<>>
    /\ head_tracker = NewHeadMovementTracker
    /\ threads = NewThreads

\* the outcomes and faults exercised with the registry
RegistryOutcomes == {"setup_raises", "camera_fails", "ok"}
RegistryFaults == {"none", "end_session"}

Next ==
    \/ \E cid \in CandidateIds, outcome \in RegistryOutcomes : StartSession(cid, outcome)
    \/ \E cid \in CandidateIds, fault \in RegistryFaults :
          StopSession(cid, fault) /\ UNCHANGED <<call, life>>
    \/ \E cid \in CandidateIds : SessionHeartbeat(cid)
    \/ \E fault \in [StaleKeys -> RegistryFaults] : CleanupTick(fault) /\ UNCHANGED life
    \/ \E d \in Steps : Advance(d)

Spec == Init /\ [][Next]_vars

\* One candidate, started and stopped without faults, fed frames and chunks
NextSig ==
    \/ StartSessionFor("a", "ok", MaxSigSessions) /\ UNCHANGED <<call, life>>
    \/ StopSession("a", "none") /\ UNCHANGED <<call, life>>
    \/ \E sid \in DOMAIN objs, e \in Entries : CaptureFrame(sid, e, MaxFrames)
    \/ \E sid \in DOMAIN objs, status \in BOOLEAN, voice \in BOOLEAN : AudioChunk(sid, status, voice)

SpecSig == Init /\ [][NextSig]_vars

\* One session, its producers, and readers holding what the feeds handed out
NextSnap ==
    \/ StartSessionFor("a", "ok", 1) /\ UNCHANGED <<call, life>>
    \/ \E sid \in DOMAIN objs, e \in {NoFace, TwoFaces} : CaptureFrame(sid, e, MaxSnapFrames)
    \/ \E sid \in DOMAIN objs : AudioChunk(sid, TRUE, TRUE)
    \/ WebsocketLive("a")
    \/ VideoFeed("a")
    \/ \E i \in 1..MaxSnaps, nested \in BOOLEAN : MutateSnapshot(i, nested)
    \/ \E i \in 1..MaxSnaps : MutateFrame(i)

SpecSnap == Init /\ [][NextSnap]_vars

\* Start and stop requests with every device outcome and every raising release
StartOutcomes == {"camera_fails", "ok"}
StopCandidates == {"a", "b"}

NextStop ==
    \/ \E cid \in StopCandidates, outcome \in StartOutcomes :
          StartObserved(cid, outcome, MaxStopSessions) /\ UNCHANGED life
    \/ \E cid \in StopCandidates, fault \in StopFaults :
          StopObserved(cid, fault) /\ UNCHANGED life

SpecStop == Init /\ [][NextStop]_vars

\* One session's frame callback, audio callback and a reader of its signals,
\* interleaved statement by statement; frames without a face and with two
LockEntries == {NoFace, TwoFaces}

NextLock ==
    \/ \E e \in LockEntries : FrameEnter(e)
    \/ FrameTotal
    \/ FramePresent
    \/ FrameMultiple
    \/ FrameLatch
    \/ FrameAcquire
    \/ FrameWrite
    \/ \E status, voice_active \in BOOLEAN : AudioEnter(status, voice_active)
    \/ AudioVoice
    \/ ReadCopy
    \/ ReadIntegrity

SpecLock == Init /\ [][NextLock]_vars

\* Start requests that meet an audio input that opens or does not, and stop
\* requests whose audio.stop() raises if it has a stream to close
MuteCandidates == {"a", "b"}
MuteOutcomes == {"audio_fails", "ok"}
MuteFaults == {"none", "audio"}

NextMute ==
    \/ \E cid \in MuteCandidates, outcome \in MuteOutcomes :
          StartObserved(cid, outcome, MaxMuteSessions) /\ UNCHANGED life
    \/ \E cid \in MuteCandidates, fault \in MuteFaults :
          StopObserved(cid, fault) /\ UNCHANGED life

SpecMute == Init /\ [][NextMute]_vars

\* One candidate, its camera and the two live feeds asked without an id and
\* for an id that is not registered; a stop() that raises in audio.stop()
\* leaves its session registered and not running
FeedQueries == {None, "b"}              \* candidate_id: Optional[str] = None

NextFeed ==
    \/ StartSessionFor("a", "ok", MaxFeedSessions) /\ UNCHANGED <<call, life>>
    \/ StopSession("a", "audio") /\ UNCHANGED <<call, life>>
    \/ \E sid \in DOMAIN objs : CaptureFrame(sid, TwoFaces, MaxFeedFrames)
    \/ \E cid \in FeedQueries : LiveFeedRound(cid)
    \/ \E cid \in FeedQueries, encodes \in BOOLEAN : FrameFeedRound(cid, encodes)
    \/ Advance(StaleAfter)

SpecFeed == Init /\ [][NextFeed]_vars

\* The requests of the session API with every outcome of setup() / start()
RequestCandidates == {"", "a"}

NextReq ==
    \/ \E cid \in RequestCandidates, outcome \in SetupOutcomes :
          StartObserved(cid, outcome, MaxReqSessions) /\ UNCHANGED life
    \/ \E cid \in RequestCandidates : StopSession(cid, "none") /\ UNCHANGED <<call, life>>
    \/ \E cid \in RequestCandidates : SessionHeartbeat(cid)
    \/ \E cid \in RequestCandidates, raises \in BOOLEAN : GetSummary(cid, raises)
    \/ \E d \in Steps : Advance(d)

SpecReq == Init /\ [][NextReq]_vars

\* Start and stop requests and the reaper, with a stop() that completes or
\* raises in end_session, and the calls made on each instance recorded
LifeCandidates == {"a", "b"}
LifeOutcomes == {"setup_raises", "camera_fails", "ok"}
LifeFaults == {"none", "end_session"}

NextLife ==
    \/ \E cid \in LifeCandidates, outcome \in LifeOutcomes : StartTracked(cid, outcome)
    \/ \E cid \in LifeCandidates, fault \in LifeFaults : StopTracked(cid, fault)
    \/ \E fault \in [StaleKeys -> LifeFaults] : CleanupTracked(fault)
    \/ \E d \in Steps : Advance(d)

SpecLife == Init /\ [][NextLife]_vars

\* Two candidates registered side by side, each with its own producers
PairCandidates == {"a", "b"}

NextPair ==
    \/ \E cid \in PairCandidates :
          StartSessionFor(cid, "ok", MaxPairSessions) /\ UNCHANGED <<call, life>>
    \/ \E sid \in DOMAIN objs, e \in {NoFace, TwoFaces} : CaptureFrame(sid, e, MaxPairFrames)
    \/ \E sid \in DOMAIN objs, status \in BOOLEAN, voice \in BOOLEAN : AudioChunk(sid, status, voice)

SpecPair == Init /\ [][NextPair]_vars

\* One session fed the entries FaceLogger builds from every pair of tracker
\* results, and audio chunks
NextEntry ==
    \/ StartSessionFor("a", "ok", MaxEntrySessions) /\ UNCHANGED <<call, life>>
    \/ \E sid \in DOMAIN objs, eye \in EyeResults, head \in HeadResults :
          CaptureFrame(sid, log_entry(eye, head), MaxEntryFrames)
    \/ \E sid \in DOMAIN objs, voice \in BOOLEAN : AudioChunk(sid, FALSE, voice)

SpecEntry == Init /\ [][NextEntry]_vars

\* the frame callback meets closed trackers once the logger has stopped
FaultsNow == IF flog.state = "stopped" THEN {"none", "process_frame"} ELSE {"none"}

\* one camera session without callback faults: start, capture, stop, flush
NextCam ==
    \/ LoggerStart
    \/ \E device, encoder \in BOOLEAN : CamStart(device, encoder)
    \/ LoopTest
    \/ \E ret \in BOOLEAN : LoopRead(ret)
    \/ LoopStore
    \/ LoopWrite
    \/ \E fault \in FaultsNow : LoopCallback(fault)
    \/ CamStopBegin
    \/ CamStopJoin
    \/ LoggerStop

SpecCam == Init /\ [][NextCam]_vars

\* the join timeout of CameraCapture.stop() elapses whatever the thread does
SpecCamFair == SpecCam /\ WF_vars(CamStopJoin)

\* the producers with callbacks that may raise
NextFault ==
    \/ LoggerStart
    \/ CamStart(TRUE, TRUE)
    \/ LoopTest
    \/ LoopRead(TRUE)
    \/ LoopStore
    \/ LoopWrite
    \/ \E fault \in CallbackFaults : LoopCallback(fault)
    \/ MicStart
    \/ \E status, fault, aborts \in BOOLEAN : MicBlock(status, fault, aborts)
    \/ MicStop

SpecFault == Init /\ [][NextFault]_vars

\* a fresh eye tracker fed frames: without a face (the ratios are not read),
\* or with a face
NextEye ==
    \/ EyeFrame(FALSE, <<0, 0>>, <<0, 0>>)
    \/ \E ear \in EarPairs, ratio \in RatioPairs : EyeFrame(TRUE, ear, ratio)

SpecEye == Init /\ [][NextEye]_vars

\* a fresh detector fed chunks and asked for its statistics
NextVad ==
    \/ \E amplitude \in Amplitudes, chunk_frames \in ChunkFrames :
          VadChunk(amplitude, chunk_frames)
    \/ VadStatistics

SpecVad == Init /\ [][NextVad]_vars

\* the audio capture on its own: an input that opens or not, blocks of the
\* driver whose observer may raise, and stop() statement by statement
NextMic ==
    \/ \E outcome \in MicOutcomes : MicStartWith(outcome)
    \/ \E status, fault, aborts \in BOOLEAN : MicBlock(status, fault, aborts)
    \/ MicStopBegin
    \/ MicStopClose

SpecMic == Init /\ [][NextMic]_vars

\* the face logger on its own, fed with the trackers' results
NextLog ==
    \/ \E t \in LogStartTimes : LoggerStartAt(t)
    \/ \E eye \in EyeResults, head \in HeadResults, timestamp \in LogTimestamps :
          LogFrame(eye, head, timestamp)

SpecLog == Init /\ [][NextLog]_vars

\* the head-movement tracker on its own
NextHead ==
    \/ HeadFrame(NoFaceSeen)
    \/ \E landmarks \in HeadPositions : HeadFrame(landmarks)

SpecHead == Init /\ [][NextHead]_vars

----------------------------------------------------------------------------
\* Registry claims

Registered(reg, sid) == \E i \in DOMAIN reg : reg[i].sid = sid

\* C1: in every reachable state at most one CaptureSession with
\* is_running = true exists per candidate id.
C1_OneRunningPerCandidate ==
    \A s1, s2 \in DOMAIN objs :
        (objs[s1].is_running /\ objs[s2].is_running
            /\ objs[s1].candidate_id = objs[s2].candidate_id) => s1 = s2

\* C2: a start request for a candidate id whose registered session is running
\* is rejected (400) and changes neither the registry nor any session.
C2_DuplicateRejected ==
    [][\A cid \in CandidateIds :
          (/\ resp'.op = "start" /\ resp'.cid = cid
           /\ Lookup(_active_sessions, cid) # NoSid
           /\ objs[Lookup(_active_sessions, cid)].is_running)
          => (resp'.code = 400 /\ _active_sessions' = _active_sessions /\ objs' = objs)]_vars

\* C3: a start request for a candidate id that directly follows a successful
\* stop request for that id (session stopped, entry removed) is not rejected
\* as a duplicate and constructs a fresh CaptureSession instance.
C3_CreateAfterRemove ==
    [][(/\ resp.op = "stop" /\ resp.code = 200
        /\ resp'.op = "start" /\ resp'.cid = resp.cid
        /\ resp.cid \notin Keys(_active_sessions))
          => (resp'.code # 400 /\ Len(objs') = Len(objs) + 1)]_vars

\* C4: every registered session whose heartbeat age exceeds 60 s at a reaper
\* tick is stopped and removed from the registry by that tick, running or not.
C4_StaleReaped ==
    [][resp'.op = "cleanup" =>
          \A i \in DOMAIN _active_sessions :
              LET e == _active_sessions[i] IN
              now - objs[e.sid].last_heartbeat > 60
                  => (~Registered(_active_sessions', e.sid) /\ ~objs'[e.sid].is_running)]_vars

\* a tick has just reaped at least one session
C4_Witness == resp.op = "cleanup" /\ resp.code >= 1 /\ resp.errors = 0

\* C5: a running session stops running only in a client stop request or in a
\* reaper tick at which its heartbeat age exceeds 60 s, and a reaper tick
\* removes from the registry only sessions whose age exceeds 60 s.
C5_FreshNotReaped ==
    [][\A sid \in DOMAIN objs :
          /\ (objs[sid].is_running /\ ~objs'[sid].is_running)
                => \/ resp'.op = "stop"
                   \/ resp'.op = "cleanup" /\ now - objs[sid].last_heartbeat > 60
          /\ (resp'.op = "cleanup" /\ Registered(_active_sessions, sid)
                  /\ ~Registered(_active_sessions', sid))
                => now - objs[sid].last_heartbeat > 60]_vars

\* a tick has just run and a running session aged exactly 60 s is still registered
C5_Witness ==
    /\ resp.op = "cleanup"
    /\ \E i \in DOMAIN _active_sessions :
          LET o == objs[_active_sessions[i].sid]
          IN  o.is_running /\ now - o.last_heartbeat = 60

\* C6: a reaper tick in which stop() of a stale session raises still removes
\* every stale session of that tick, leaves none of them running, and leaves
\* the reaper task able to tick again.
C6_ReaperSurvivesStopFailure ==
    [][(resp'.op = "cleanup" /\ resp'.errors > 0) =>
          /\ \A i \in DOMAIN _active_sessions :
                 now - objs[_active_sessions[i].sid].last_heartbeat > 60
                     => /\ _active_sessions[i].cid \notin Keys(_active_sessions')
                        /\ ~objs'[_active_sessions[i].sid].is_running
          /\ cleanup_task' = "sleeping"]_vars

\* a tick has just reaped two sessions, the stop() of at least one having raised
C6_Witness == resp.op = "cleanup" /\ resp.errors >= 1 /\ resp.code >= 2 /\ cleanup_task = "sleeping"

----------------------------------------------------------------------------
\* Signal claims

Live == {sid \in DOMAIN objs : objs[sid] # Collected}

C8_AudioInterruptionLatched ==
    /\ [](\A sid \in Live :
             SignalsNow(objs[sid]).integrity.audio_interruptions = hist[sid].anomaly)
    /\ [][saved' # saved =>
             saved'.audio_interruptions_detected = hist[saved'.sid].anomaly]_vars

\* a chunk without driver status has just been processed after an anomalous one
C8_Witness ==
    /\ resp.op = "audio" /\ resp.errors = 0
    /\ resp.code \in Live /\ hist[resp.code].anomaly

\* C9: the counters behind the face-continuity ratio are the number of processed
\* frames with face_present and the number of processed frames, and
\* face_continuous is true exactly when no frame was processed or
\* faces / frames > 90%.
C9_FaceContinuity ==
    \A sid \in Live :
        LET o == objs[sid]
            h == hist[sid]
        IN  /\ o._face_present_count = h.faces
            /\ o._total_frame_count = h.frames
            /\ SignalsNow(o).integrity.face_continuous
                  = (h.frames = 0 \/ 10 * h.faces > 9 * h.frames)

\* ten frames processed, nine of them with a face: the ratio is exactly 90%
C9_Witness == \E sid \in Live : hist[sid].frames = 10 /\ hist[sid].faces = 9

\* what an instance holds: its fields, its signals dict and its latest frame
SessionState(sid) ==
    [fields |-> objs[sid],
     signals |-> Deref(dicts, integs, objs[sid]._current_signals),
     frame |-> IF objs[sid].current_frame = 0 THEN 0 ELSE bufs[objs[sid].current_frame]]

\* C10: a reader's write into a dict or frame it was handed changes no
\* instance's state, nothing get_current_signals returns afterwards and no
\* other handed-out dict; a producer callback changes no handed-out dict or frame.
C10_SnapshotsIndependent ==
    [][/\ resp'.op \in {"mutate", "mutate_frame"} =>
            \A sid \in Live : /\ SessionState(sid)' = SessionState(sid)
                               /\ SignalsNow(objs[sid])' = SignalsNow(objs[sid])
       /\ resp'.op = "mutate" =>
            /\ \A j \in DOMAIN snaps :
                  j # resp'.code => Deref(dicts', integs', snaps[j]) = Deref(dicts, integs, snaps[j])
            /\ \A j \in DOMAIN frames : bufs'[frames[j]] = bufs[frames[j]]
       /\ resp'.op = "mutate_frame" =>
            /\ \A j \in DOMAIN snaps :
                  Deref(dicts', integs', snaps[j]) = Deref(dicts, integs, snaps[j])
            /\ \A j \in DOMAIN frames : j # resp'.code => bufs'[frames[j]] = bufs[frames[j]]
       /\ resp'.op \in {"frame", "audio"} =>
            /\ \A j \in DOMAIN snaps :
                  Deref(dicts', integs', snaps[j]) = Deref(dicts, integs, snaps[j])
            /\ \A j \in DOMAIN frames : bufs'[frames[j]] = bufs[frames[j]]]_vars

\* a frame callback has just run while a reader holds a dict that no longer
\* equals what get_current_signals returns
C10_Witness ==
    /\ resp.op = "frame"
    /\ \E j \in DOMAIN snaps :
          Deref(dicts, integs, snaps[j]).face_detected # SignalsNow(objs[resp.code]).face_detected

----------------------------------------------------------------------------
\* Face-log claim

\* C11: once the face log has been written to its file, the file holds exactly
\* one entry per frame process_frame was invoked for, in the order of
\* invocation, also when the capture thread outlives the join of stop().
C11_FaceLogComplete ==
    flog.file # NoFile => flog.file = flog.invoked

----------------------------------------------------------------------------
\* Eye-tracker claims

AllFaces(ears) == \A i \in DOMAIN ears : ears[i] # NoFaceSeen

Count(bs) == Cardinality({i \in DOMAIN bs : bs[i]})

\* C12: in a sequence of face-present frames a blink is reported on a frame
\* exactly when its averaged ratio is below 0.21 and the previous frame's was
\* at or above 0.21; never on two consecutive frames; and the sequence
\* 0.30, 0.18, 0.19, 0.25 gives exactly one blink.
C12_BlinkOnFallingEdge ==
    AllFaces(tracker.ears) =>
        /\ \A i \in DOMAIN tracker.ears :
              tracker.blinks[i] = /\ tracker.ears[i] < 42
                                  /\ i > 1
                                  /\ tracker.ears[i - 1] >= 42
        /\ \A i \in DOMAIN tracker.ears : i > 1 => ~(tracker.blinks[i - 1] /\ tracker.blinks[i])
        /\ tracker.ears = <<60, 36, 38, 50>> => Count(tracker.blinks) = 1

\* C13: a fresh tracker whose every frame so far, the first included, has a
\* ratio below 0.21 has reported no blink.
C13_ClosedFromStartNoBlink ==
    (tracker.ears # <<>> /\ \A i \in DOMAIN tracker.ears :
                               tracker.ears[i] # NoFaceSeen /\ tracker.ears[i] < 42)
        => Count(tracker.blinks) = 0

\* C14: with r the averaged iris offset ratio of a face-present frame, the
\* direction is left for r < 0.35, right for r > 0.65 and center otherwise,
\* 0.35 and 0.65 included.
C14_GazeClassification ==
    tracker.last.face_present =>
        /\ tracker.ratio < 70 => tracker.last.eye_direction = "left"
        /\ tracker.ratio > 130 => tracker.last.eye_direction = "right"
        /\ (tracker.ratio >= 70 /\ tracker.ratio <= 130) =>
                tracker.last.eye_direction = "center"
        /\ tracker.ratio = 40 => tracker.last.eye_direction = "left"
        /\ tracker.ratio = 100 => tracker.last.eye_direction = "center"
        /\ tracker.ratio = 160 => tracker.last.eye_direction = "right"

\* a frame whose averaged ratio is exactly 0.35 or exactly 0.65
C14_Witness ==
    tracker.last.face_present /\ tracker.ratio \in {70, 130}

----------------------------------------------------------------------------
\* Voice-activity claims

RECURSIVE FramesOf(_, _)
\* the frame counts of the chunks of q, all of them or the loud ones only
\* (RMS above 0.02, that is above 20 thousandths)
FramesOf(q, loud_only) ==
    IF q = <<>> THEN 0
    ELSE (IF loud_only /\ ~(Abs(Head(q).amplitude) > 20) THEN 0 ELSE Head(q).frames)
         + FramesOf(Tail(q), loud_only)

\* C15: a chunk is reported as voice exactly when its RMS is above 0.02;
\* total_frames is the sum of the frame counts, voice_frames the sum over the
\* chunks reported as voice, one RMS sample is kept per chunk, and the
\* speaking time is voice_frames / sample_rate (44100 frames of RMS 0.05 at
\* 44100 Hz: 1.0 s).
C15_VoiceAccounting ==
    /\ \A i \in DOMAIN detector.fed :
          detector.voices[i] = (Abs(detector.fed[i].amplitude) > 20)
    /\ detector.total_frames = FramesOf(detector.fed, FALSE)
    /\ detector.voice_frames = FramesOf(detector.fed, TRUE)
    /\ 0 <= detector.voice_frames /\ detector.voice_frames <= detector.total_frames
    /\ Len(detector.rms_values) = Len(detector.fed)
    /\ detector.stats.asked =>
          /\ 44100 * detector.stats.total_speaking_time_sec
                 >= 100 * FramesOf(detector.fed, TRUE) - 22050
          /\ 44100 * detector.stats.total_speaking_time_sec
                 <= 100 * FramesOf(detector.fed, TRUE) + 22050
          /\ detector.fed = <<[amplitude |-> -50, frames |-> 44100]>> =>
                 detector.stats.total_speaking_time_sec = 100

\* statistics asked after a chunk at exactly 0.02 and a chunk above it
C15_Witness ==
    /\ detector.stats.asked
    /\ \E i, j \in DOMAIN detector.fed :
          Abs(detector.fed[i].amplitude) = 20 /\ Abs(detector.fed[j].amplitude) > 20

\* C16: with no chunk processed, or with constant-zero chunks only,
\* get_statistics reports average_volume = -100.0 dB and voice_detected = false.
C16_SilenceFloor ==
    (detector.stats.asked /\ \A i \in DOMAIN detector.fed : detector.fed[i].amplitude = 0) =>
        /\ detector.stats.average_volume.floored
        /\ ~detector.stats.voice_detected

\* statistics asked after two constant-zero chunks
C16_Witness ==
    /\ detector.stats.asked /\ Len(detector.fed) >= 2
    /\ \A i \in DOMAIN detector.fed : detector.fed[i].amplitude = 0

----------------------------------------------------------------------------
\* Start and stop claims

Released(status) == status \in {"None", "stopped"}

\* C17: when the camera fails to open, start() returns False without raising,
\* the instance is not running, has no capture thread and no audio stream, the
\* candidate has no registry entry and the instance is discarded.
C17_CameraFailureDiscards ==
    (call.op = "start" /\ call.input = "camera_fails") =>
        /\ call.returned = "False"
        /\ ~call.obj.is_running
        /\ call.obj.camera # "running"
        /\ call.obj.audio # "running"
        /\ call.obj.candidate_id \notin Keys(_active_sessions)
        /\ objs[call.sid] = Collected

\* a start met a camera that did not open while another candidate's session runs
C17_Witness ==
    /\ call.op = "start" /\ call.input = "camera_fails"
    /\ \E sid \in DOMAIN objs : objs[sid].is_running

\* C18: when the release of the camera, of the audio capture or of the face
\* logger raises inside stop(), the other two are released all the same and
\* the session_data reaches save_session.
C18_ReleasesIndependent ==
    (call.op = "stop" /\ call.returned = "raised"
        /\ call.input \in {"camera", "audio", "face_logger"}) =>
        /\ call.input # "camera" => Released(call.obj.camera)
        /\ call.input # "audio" => Released(call.obj.audio)
        /\ call.input # "face_logger" => Released(call.obj.face_logger)
        /\ call.handed

----------------------------------------------------------------------------
\* Producer-loop claims

\* C19: an exception raised inside the frame callback or the chunk callback
\* ends neither the capture loop nor the audio stream.
C19_CallbackFaultsContained ==
    [][/\ (cam'.raised /\ ~cam.raised) => cam'.thread = "alive"
       /\ (mic'.raised /\ ~mic.raised) => mic'.stream = "active"]_vars

\* C20: CameraCapture.stop() returns after it has begun, the running flag
\* cleared and the encoder and the device released, whether or not the capture
\* thread has exited.
C20_StopAlwaysReturns ==
    /\ [](cam.stopper = "joining" => ~cam.is_running)
    /\ [](cam.stopper = "returned" =>
              ~cam.is_running /\ cam.writer = "released" /\ cam.cap = "released")
    /\ (cam.stopper = "joining" ~> cam.stopper = "returned")

\* stop() has returned while the capture thread is still inside an iteration
C20_Witness == cam.stopper = "returned" /\ cam.thread = "alive" /\ cam.pc = "callback"

----------------------------------------------------------------------------
\* Live-feed claims

\* the booleans of a payload, and whether two payloads have the same keys
AllFalse(p) ==
    /\ ~p.face_detected /\ ~p.blink /\ ~p.session_active
    /\ ~p.integrity.face_continuous /\ ~p.integrity.multiple_faces
    /\ ~p.integrity.audio_interruptions

SameKeys(p, q) == DOMAIN p = DOMAIN q /\ DOMAIN p.integrity = DOMAIN q.integrity

IdleRound == feed.op = "live" /\ feed.idle

\* C21: whenever the session looked up by the live signal feed is absent or not
\* running, the emitted payload has the keys of a running session's payload,
\* every boolean false, every categorical value "unknown" and elapsed_sec = 0.
C21_IdlePayloadAllUnknown ==
    IdleRound =>
        /\ \A sid \in Live : SameKeys(feed.payload, SignalsNow(objs[sid]))
        /\ AllFalse(feed.payload)
        /\ feed.payload.eye_direction = "unknown"
        /\ feed.payload.head_movement = "unknown"
        /\ feed.payload.voice_activity = "unknown"
        /\ feed.payload.elapsed_sec = 0

\* C21 as amended: whenever the session looked up by the live signal feed is
\* absent or not running, the emitted payload has the keys of a running
\* session's payload, every boolean false, eye_direction and head_movement
\* "unknown", voice_activity "silent" and elapsed_sec = 0.
C21_IdlePayload ==
    IdleRound =>
        /\ \A sid \in Live : SameKeys(feed.payload, SignalsNow(objs[sid]))
        /\ AllFalse(feed.payload)
        /\ feed.payload.eye_direction = "unknown"
        /\ feed.payload.head_movement = "unknown"
        /\ feed.payload.voice_activity = "silent"
        /\ feed.payload.elapsed_sec = 0

\* the feed has just found a registered session that is not running, which
\* had a face in view and time elapsed
C21_Witness ==
    /\ IdleRound /\ resp.op = "live_round"
    /\ feed.sid # NoSid /\ ~objs[feed.sid].is_running
    /\ SignalsNow(objs[feed.sid]).face_detected
    /\ SignalsNow(objs[feed.sid]).elapsed_sec > 0

\* C22: the live frame feed emits an image only when the looked-up session is
\* running and has a latest frame (and then that frame); with no session, a
\* session that is not running or no frame yet it emits nothing, raises no
\* error and keeps polling.
C22_FrameOnlyWhenAvailable ==
    [][resp'.op = "video_round" =>
          LET sid == get_session(_active_sessions, feed'.cid)
              available == /\ sid # NoSid /\ objs[sid].is_running
                           /\ objs[sid].current_frame # 0
          IN  /\ feed'.emitted => available /\ feed'.image = bufs[objs[sid].current_frame]
              /\ ~available => ~feed'.emitted
              /\ feed'.task = "polling"
              /\ <<_active_sessions, objs, bufs, frames>>' = <<_active_sessions, objs, bufs, frames>>]_vars

\* the feed has just emitted nothing for a registered session that holds a
\* frame but is not running
C22_Witness ==
    /\ resp.op = "video_round" /\ ~feed.emitted /\ feed.sid # NoSid
    /\ ~objs[feed.sid].is_running /\ objs[feed.sid].current_frame # 0

----------------------------------------------------------------------------
\* Lookup claim

\* C23: get_session with a registered id returns exactly the session
\* registered under that id; get_session without an id returns a registered
\* session whenever one exists.
C23_ExactLookup ==
    /\ \A cid \in CandidateIds :
          cid \in Keys(_active_sessions)
              => get_session(_active_sessions, cid) = Lookup(_active_sessions, cid)
    /\ _active_sessions # <<>>
          => Registered(_active_sessions, get_session(_active_sessions, None))

----------------------------------------------------------------------------
\* Request claims

\* the answers "No active session ..." (400) and "Session not found" (404)
NotFound(r) == r.code \in {400, 404}

\* C24: a stop, heartbeat or summary request for a candidate id with no
\* registered session is answered session-not-found and changes neither the
\* registry nor any session (running flag, heartbeat time, signal state).
C24_UnknownIdRejected ==
    [][(resp'.op \in {"stop", "heartbeat", "summary"}
            /\ resp'.cid \notin Keys(_active_sessions))
          => /\ NotFound(resp')
             /\ <<_active_sessions, objs, dicts, integs>>' = <<_active_sessions, objs, dicts, integs>>]_vars

\* the devices whose failure a start can meet
DeviceFailures == {"camera_fails", "audio_fails"}

----------------------------------------------------------------------------
\* Lifecycle claims

\* the state of an instance, from the calls made on it and its running flag
state_of(sid) ==
    IF life[sid].stops > 0 THEN "STOPPED"
    ELSE IF objs[sid].is_running THEN "RUNNING"
    ELSE IF life[sid].setups > 0 THEN "CONFIGURED"
    ELSE "UNINITIALIZED"

Rank(state) ==
    CASE state = "UNINITIALIZED" -> 0
      [] state = "CONFIGURED" -> 1
      [] state = "RUNNING" -> 2
      [] state = "STOPPED" -> 3

Running(os, sid) == sid \in DOMAIN os /\ os[sid].is_running

\* C25: an instance only moves forward through UNINITIALIZED, CONFIGURED,
\* RUNNING, STOPPED: it is running only after one setup() and a start() that
\* returned True, setup() is called at most once per instance, and once stop()
\* has been called the instance is never running again.
C25_ForwardOnly ==
    /\ [](\A sid \in DOMAIN life :
             /\ life[sid].setups <= 1
             /\ objs[sid].is_running =>
                    life[sid].setups = 1 /\ life[sid].starts = 1 /\ life[sid].stops = 0)
    /\ [][\A sid \in DOMAIN life' :
             /\ sid \in DOMAIN life => Rank(state_of(sid))' >= Rank(state_of(sid))
             /\ (Running(objs', sid) /\ ~Running(objs, sid))
                    => /\ call'.op = "start" /\ call'.sid = sid
                       /\ call'.returned = "True"]_vars

\* stop() has raised on a registered instance, which stays registered and
\* is not running
C25_Witness ==
    /\ call.op = "stop" /\ call.returned = "raised"
    /\ Registered(_active_sessions, call.sid)
    /\ life[call.sid].stops >= 1 /\ ~objs[call.sid].is_running

\* C26: under any interleaving of stop requests and reaper ticks, also after a
\* stop request whose stop() raised, stop() is called at most once on every
\* instance, and its face log is flushed at most once.
C26_StopAtMostOnce ==
    \A sid \in DOMAIN life : life[sid].stops <= 1 /\ life[sid].flushes <= 1

----------------------------------------------------------------------------
\* Producer claims

\* C27: with two or more registered sessions, the frame and audio callbacks of
\* one session change neither the signal snapshot, the integrity counters and
\* latches, nor the latest frame of any other session.
C27_SessionsIsolated ==
    [][resp'.op \in {"frame", "audio"} =>
          \A sid \in Live :
              sid # resp'.code =>
                  /\ SessionState(sid)' = SessionState(sid)
                  /\ SignalsNow(objs[sid])' = SignalsNow(objs[sid])]_vars

\* a frame callback has just run in one of two registered sessions whose
\* snapshots differ, the other one holding a frame and a latched flag
C27_Witness ==
    /\ resp.op = "frame" /\ Len(_active_sessions) = 2
    /\ \E sid \in Live :
          /\ sid # resp.code /\ Registered(_active_sessions, sid)
          /\ Registered(_active_sessions, resp.code)
          /\ objs[sid].current_frame # 0 /\ objs[sid]._multiple_faces_latch
          /\ SignalsNow(objs[sid]) # SignalsNow(objs[resp.code])

\* the fields the frame callback writes, reset to given values
WithFaceFields(o, from) ==
    [o EXCEPT !._total_frame_count = from._total_frame_count,
              !._face_present_count = from._face_present_count,
              !._multiple_faces_detected = from._multiple_faces_detected,
              !._multiple_faces_latch = from._multiple_faces_latch,
              !.current_frame = from.current_frame]

WithFaceSignals(d, from) ==
    [d EXCEPT !.face_detected = from.face_detected, !.eye_direction = from.eye_direction,
              !.head_movement = from.head_movement, !.blink = from.blink]

\* C30: a frame callback changes only face_detected, eye_direction,
\* head_movement, blink and the face bookkeeping (counters, multiple-faces
\* flags, latest frame) and leaves voice_activity and the audio-interruption
\* flag as they were; an audio-chunk callback changes only voice_activity and
\* the audio-interruption flag.
C30_DisjointFields ==
    [][\A sid \in Live :
          LET o == objs[sid]
              a == o._current_signals
          IN  /\ (resp'.op = "frame" /\ resp'.code = sid) =>
                     /\ WithFaceFields(objs'[sid], o) = o
                     /\ WithFaceSignals(dicts'[a], dicts[a]) = dicts[a]
                     /\ integs' = integs
              /\ (resp'.op = "audio" /\ resp'.code = sid) =>
                     /\ [objs'[sid] EXCEPT !._audio_interruptions = o._audio_interruptions] = o
                     /\ [dicts'[a] EXCEPT !.voice_activity = dicts[a].voice_activity] = dicts[a]
                     /\ integs' = integs /\ bufs' = bufs]_vars

\* a frame callback has just run in a session whose voice field is "active"
\* and whose audio-interruption flag is set
C30_Witness ==
    /\ resp.op = "frame" /\ resp.code \in Live
    /\ dicts[objs[resp.code]._current_signals].voice_activity = "active"
    /\ dicts[objs[resp.code]._current_signals].face_detected
    /\ objs[resp.code]._audio_interruptions

----------------------------------------------------------------------------
\* Snapshot-domain claim

\* C28: every snapshot get_current_signals returns, from creation on and after
\* any frame and audio callbacks, has eye_direction in {left, center, right},
\* head_movement in {low, medium, high}, a boolean blink and voice_activity in
\* {active, silent}.
C28_SnapshotDomains ==
    \A sid \in Live :
        LET p == SignalsNow(objs[sid])
        IN  /\ p.eye_direction \in {"left", "center", "right"}
            /\ p.head_movement \in {"low", "medium", "high"}
            /\ p.blink \in BOOLEAN
            /\ p.voice_activity \in {"active", "silent"}

\* C28 as amended: every snapshot has a boolean blink and voice_activity in
\* {active, silent}; while face_detected is true, eye_direction is in {left,
\* center, right} and head_movement in {low, medium, high}; while it is false
\* (before the first frame and after a frame without a face) both are
\* "unknown" and blink is false.
C28_SnapshotDomainsOrUnknown ==
    \A sid \in Live :
        LET p == SignalsNow(objs[sid])
        IN  /\ p.blink \in BOOLEAN
            /\ p.voice_activity \in {"active", "silent"}
            /\ p.face_detected \in BOOLEAN
            /\ p.face_detected =>
                   /\ p.eye_direction \in {"left", "center", "right"}
                   /\ p.head_movement \in {"low", "medium", "high"}
            /\ ~p.face_detected =>
                   /\ p.eye_direction = "unknown" /\ p.head_movement = "unknown"
                   /\ ~p.blink

\* a frame without a face has just been processed after a frame with one
C28_Witness ==
    /\ resp.op = "frame" /\ resp.code \in Live
    /\ hist[resp.code].frames = 2 /\ hist[resp.code].faces = 1
    /\ ~SignalsNow(objs[resp.code]).face_detected

----------------------------------------------------------------------------
\* Head-tracker claims

\* the part of q after its first n elements
DropFirst(q, n) == SubSeq(q, n + 1, Len(q))

\* the last n elements of q, all of q when it is shorter
LastN(q, n) == IF Len(q) <= n THEN q ELSE DropFirst(q, Len(q) - n)

\* the displacements measured over the frames fed, oldest first: one for every
\* two consecutive frames that both show a face
RECURSIVE Displacements(_)
Displacements(fed) ==
    IF Len(fed) < 2 THEN <<>>
    ELSE LET n == Len(fed)
             earlier == Displacements(SubSeq(fed, 1, n - 1))
         IN  IF fed[n] # NoFaceSeen /\ fed[n - 1] # NoFaceSeen
             THEN Append(earlier, Abs(fed[n] - fed[n - 1]))
             ELSE earlier

\* the frames fed since the last frame without a face
RECURSIVE SinceGap(_)
SinceGap(fed) ==
    IF fed = <<>> \/ fed[Len(fed)] = NoFaceSeen THEN <<>>
    ELSE Append(SinceGap(SubSeq(fed, 1, Len(fed) - 1)), fed[Len(fed)])

\* the level of the mean of the displacements q (thousandths): below 0.005
\* low, from 0.005 to below 0.015 medium, 0.015 and above high
LevelOfMean(q) ==
    IF SumSeq(q) < 5 * Len(q) THEN "low"
    ELSE IF SumSeq(q) < 15 * Len(q) THEN "medium"
    ELSE "high"

\* the frame the tracker has just been given
HeadFrameFed == head_tracker'.fed[Len(head_tracker'.fed)]

\* C32: a frame without a face makes the head tracker report face_present =
\* false and leaves it with no previous landmarks and an empty movement
\* history, so the level reported for a later frame is the level of the mean
\* of (at most the last 5 of) the displacements measured since that frame.
C32_GapClearsHistory ==
    [][head_tracker'.fed # head_tracker.fed =>
          /\ HeadFrameFed = NoFaceSeen =>
                 /\ ~head_tracker'.result.face_present
                 /\ head_tracker'.prev_landmarks = NoLandmarks
                 /\ head_tracker'.movement_history = <<>>
          /\ HeadFrameFed # NoFaceSeen /\ head_tracker.prev_landmarks # NoLandmarks =>
                 head_tracker'.result.intensity =
                     LevelOfMean(LastN(Displacements(SinceGap(head_tracker'.fed)), 5))]_vars

\* C33: a frame with a face that follows a frame with a face reports the level
\* of the mean of the displacements the tracker measured most recently, at
\* most the last 5 (below 0.005 low, from 0.005 to below 0.015 medium, 0.015
\* and above high); a frame with a face that has no previous landmarks
\* reports low and adds nothing to the window.
C33_WindowedLevel ==
    [][head_tracker'.fed # head_tracker.fed /\ HeadFrameFed # NoFaceSeen =>
          /\ head_tracker'.result.face_present
          /\ IF head_tracker.prev_landmarks = NoLandmarks
             THEN /\ head_tracker'.result.intensity = "low"
                  /\ head_tracker'.movement_history = head_tracker.movement_history
             ELSE /\ head_tracker'.result.intensity =
                         LevelOfMean(LastN(Displacements(head_tracker'.fed), 5))
                  /\ head_tracker'.movement_history = LastN(Displacements(head_tracker'.fed), 5)]_vars

\* more than five displacements have been measured, the oldest has left the
\* window, and the mean of the window is exactly 0.005
C33_Witness ==
    /\ Len(Displacements(head_tracker.fed)) > 5
    /\ head_tracker.fed[Len(head_tracker.fed)] # NoFaceSeen
    /\ Len(head_tracker.movement_history) = 5
    /\ SumSeq(head_tracker.movement_history) = 25
    /\ SumSeq(LastN(Displacements(head_tracker.fed), 6)) # 30
    /\ head_tracker.result.intensity = "medium"

----------------------------------------------------------------------------
\* Face-logger claim

\* what process_frame was last invoked with and the last entry of the log
LastInvoked == flog'.invoked[Len(flog'.invoked)]
LastLogged == flog'.entries[Len(flog'.entries)]

\* C34: for every frame FaceLogger.process_frame appends exactly one entry to
\* the log and returns that entry; its face_present is (the eye tracker saw a
\* face) or (the head tracker saw a face), its timestamp is the frame's time
\* since the logger was started, to the millisecond, and when face_present is
\* false its eye_direction and head_movement are "unknown" and its blink false.
C34_OneEntryPerFrame ==
    [][flog'.invoked # flog.invoked =>
          /\ flog'.entries = Append(flog.entries, LastLogged)
          /\ flog'.returned = LastLogged
          /\ LastLogged.face_present = (LastInvoked.eye.face \/ LastInvoked.head.face)
          /\ Abs(10 * LastLogged.frame_timestamp
                     - (LastInvoked.timestamp - flog.session_start)) <= 5
          /\ ~LastLogged.face_present =>
                 /\ LastLogged.eye_direction = "unknown"
                 /\ LastLogged.head_movement = "unknown"
                 /\ LastLogged.blink = FALSE]_vars

\* the second frame was seen by the head tracker only, some time after start
C34_Witness ==
    /\ Len(flog.entries) = 2
    /\ ~flog.invoked[2].eye.face /\ flog.invoked[2].head.face
    /\ flog.returned = flog.entries[2]
    /\ flog.returned.face_present /\ flog.returned.frame_timestamp > 0
    /\ ~flog.entries[1].face_present

----------------------------------------------------------------------------
\* Capture-loop claims

\* frames 1 .. n in read order
FirstFrames(n) == [i \in 1..n |-> i]

\* C35: every frame the loop has read is, in read order, stored in the
\* latest-frame slot, written to the output file exactly once and passed to
\* the frame callback exactly once, in that order (only the frame the loop
\* is working on may still miss some of the three); a read that fails changes
\* none of them and the loop goes on to the next read.
C35_FramePipeline ==
    /\ \E s, w, c \in 0..cam.reads :
          /\ c <= w /\ w <= s /\ cam.reads <= c + 1
          /\ cam.stored = FirstFrames(s)
          /\ cam.file = FirstFrames(w)
          /\ flog.invoked = FirstFrames(c)
    /\ cam.current_frame = Len(cam.stored)
    /\ (cam.thread = "alive" /\ cam.pc \in {"test", "read"}) =>
          /\ cam.stored = FirstFrames(cam.reads)
          /\ cam.file = FirstFrames(cam.reads)
          /\ flog.invoked = FirstFrames(cam.reads)

\* C40: once CameraCapture.stop() has returned, the capture loop makes no
\* further encoder write, latest-frame update or frame-callback invocation,
\* and a face log that has been flushed gets no further entry.
C40_QuietAfterStop ==
    [][cam.stopper = "returned" =>
          /\ cam'.writes = cam.writes
          /\ cam'.stored = cam.stored /\ cam'.current_frame = cam.current_frame
          /\ flog'.invoked = flog.invoked
          /\ flog.state = "stopped" => flog'.entries = flog.entries]_vars

----------------------------------------------------------------------------
\* Audio-capture claim

\* the blocks of q, in order, that arrived before stop() was called
RECURSIVE BeforeStop(_)
BeforeStop(q) ==
    IF q = <<>> THEN <<>>
    ELSE IF Head(q).stopping THEN BeforeStop(Tail(q))
    ELSE <<[block |-> Head(q).block, status |-> Head(q).status]>> \o BeforeStop(Tail(q))

\* the samples of the blocks of q
BlocksOf(q) == [i \in DOMAIN q |-> q[i].block]

\* C36: every block the driver delivers while the capture runs is appended to
\* the buffer in arrival order and forwarded once, with its status, to the chunk
\* observer;
\* blocks delivered after stop() has been called are neither buffered nor
\* forwarded; and the WAV file stop() writes holds exactly the buffered blocks
\* in arrival order.
C36_BufferedInOrder ==
    /\ mic.audio_buffer = BlocksOf(BeforeStop(mic.arrived))
    /\ mic.forwarded = BeforeStop(mic.arrived)
    /\ mic.wav # NoFile => mic.wav = BlocksOf(BeforeStop(mic.arrived))
    /\ (mic.stopper = "returned" /\ BeforeStop(mic.arrived) # <<>>) => mic.wav # NoFile

\* stop() has written two blocks, a third one having arrived after it was
\* called and before the stream was closed
C36_Witness ==
    /\ mic.stopper = "returned" /\ Len(mic.wav) = 2 /\ Len(mic.arrived) = 3
    /\ mic.arrived[3].stopping /\ mic.wav # NoFile

----------------------------------------------------------------------------
\* Audio-failure claim

\* the session a stop request for cid reaches, if its audio input never opened
\* and it is running
MuteSession(cid) ==
    LET sid == get_session(_active_sessions, cid)
    IN  IF sid # NoSid /\ objs[sid].is_running /\ objs[sid].audio = "created"
        THEN sid ELSE NoSid

\* C37: when the audio input does not open and the camera does, start()
\* returns True without raising, the session is running and registered and
\* the request is answered 200; a later stop of such a session returns its
\* summary without raising, leaves it not running and removes it.
C37_AudioFailureNotFatal ==
    [][/\ (resp'.op = "start" /\ call'.op = "start" /\ call'.input = "audio_fails") =>
              /\ call'.returned = "True" /\ resp'.code = 200
              /\ call'.obj.is_running /\ call'.obj.camera = "running"
              /\ objs'[call'.sid] = call'.obj
              /\ Lookup(_active_sessions', resp'.cid) = call'.sid
       /\ (resp'.op = "stop" /\ MuteSession(resp'.cid) # NoSid) =>
              /\ call'.op = "stop" /\ call'.sid = MuteSession(resp'.cid)
              /\ call'.returned = "dict" /\ call'.handed /\ resp'.code = 200
              /\ ~call'.obj.is_running
              /\ ~Registered(_active_sessions', call'.sid)]_vars

\* a session whose audio input never opened has been stopped by a request
\* whose audio.stop() would have raised on an open stream
C37_Witness ==
    /\ resp.op = "stop" /\ resp.code = 200
    /\ call.op = "stop" /\ call.input = "audio" /\ call.returned = "dict"
    /\ ~call.obj.is_running /\ call.obj.camera = "stopped"

----------------------------------------------------------------------------
\* Registration claim

\* C38: in every reachable state every instance whose is_running is true is
\* the session registered under its own candidate id.
C38_RunningIsRegistered ==
    \A sid \in DOMAIN objs :
        (objs[sid] # Collected /\ objs[sid].is_running) =>
            /\ objs[sid].candidate_id \in Keys(_active_sessions)
            /\ Lookup(_active_sessions, objs[sid].candidate_id) = sid

----------------------------------------------------------------------------
\* Signal-lock claims

\* the session and its signals once the first k entries fed have been
\* processed completely
RECURSIVE AfterFrames(_)
AfterFrames(k) ==
    IF k = 0 THEN [o |-> NewThreads.o, signals |-> NewThreads.signals]
    ELSE LET before == AfterFrames(k - 1)
         IN  [o |-> on_frame(before.o, threads.fed[k]),
              signals |-> on_frame_signals(before.signals, threads.fed[k])]

\* the four face fields of a signals dict
FaceFields(d) == <<d.face_detected, d.eye_direction, d.head_movement, d.blink>>

\* C31: a snapshot get_current_signals returns while frame callbacks run shows
\* a whole number of processed frames: for some k, its face fields are those
\* of the k-th frame (the initial ones for k = 0) and its face_continuous and
\* multiple_faces are computed from the counters and flag after k frames.
C31_WholeFrames ==
    \A i \in DOMAIN threads.returned :
        \E k \in 0..Len(threads.fed) :
            LET p == threads.returned[i]
                whole == AfterFrames(k)
            IN  /\ FaceFields(p) = FaceFields(whole.signals)
                /\ p.integrity.face_continuous = face_continuous(whole.o)
                /\ p.integrity.multiple_faces = whole.o._multiple_faces_detected

\* C39: in every snapshot get_current_signals returns, the four face fields
\* are those of one frame fed to the callback or the initial ones, and
\* face_detected = false comes with eye_direction = "unknown", head_movement =
\* "unknown" and blink = false, however the reads interleave with the frame
\* and audio callbacks.
C39_FaceFieldsFromOneFrame ==
    \A i \in DOMAIN threads.returned :
        LET p == threads.returned[i]
        IN  /\ \/ FaceFields(p) = FaceFields(NewThreads.signals)
               \/ \E j \in DOMAIN threads.fed :
                     FaceFields(p) = FaceFields(on_frame_signals(NewThreads.signals,
                                                                 threads.fed[j]))
            /\ ~p.face_detected =>
                   /\ p.eye_direction = "unknown" /\ p.head_movement = "unknown"
                   /\ ~p.blink

\* a snapshot showing a face has been returned, and the frame callback now
\* holds the lock half way through writing a frame without a face, a second
\* read having begun before it took the lock
C39_Witness ==
    /\ Len(threads.returned) = 1 /\ threads.returned[1].face_detected
    /\ threads.lock = "frame" /\ threads.frame_pc = "head_movement"
    /\ ~threads.entry.face_present /\ ~threads.signals.face_detected
    /\ threads.signals.head_movement # "unknown"
    /\ threads.reader_pc = "integrity" /\ threads.copy.face_detected

====
